---- MODULE Spec2Model ----
(***************************************************************************)
(* Red packet escrow program: the RedPacket / Treasury records, their      *)
(* vaults, and the Create, Claim and Close instruction handlers, over a    *)
(* ledger of accounts (lamports, owning program, data).                    *)
(***************************************************************************)
EXTENDS Integers, Sequences, FiniteSets, TLC

VARIABLES lamports, owner, rpdata, token, treasury, now, last, paid, closed, numCreates, numDeposits

vars == <<lamports, owner, rpdata, token, treasury, now, last, paid, closed, numCreates, numDeposits>>

\* ---------------------------------------------------------------- bounds
NumWallets == 3
MaxTotal == 2
MaxN == 2
MaxTime == 2
MaxCreates == 2
MaxDeposits == 1
InitLamports == 100000000
InitTokens == 3000
FeeTotal == 2000
MaxWithdraw == 2
MaxSplitTotal == 3
MaxSplitN == 3

\* ------------------------------------------------------ program constants
TOKEN_TYPE_SPL == 0
TOKEN_TYPE_SOL == 1
MAX_RECIPIENTS == 20
REDPACKET_DISCRIMINATOR == 1
TREASURY_DISCRIMINATOR == 2
SPLIT_EVEN == 0
SPLIT_RANDOM == 1
FEE_RATE_BPS == 10
FEE_DENOMINATOR == 10000
REDPACKET_BASE_SIZE == 71
PER_RECIPIENT_SIZE == 40
TREASURY_SIZE == 43
TOKEN_ACCOUNT_SIZE == 165
NATIVE_SOL_MINT == 255
USDC_MINT == 100
U64_MAX == 2147483647

ID == "redpacket_program"
SYSTEM_PROGRAM_ID == "system_program"
TOKEN_PROGRAM_ID == "token_program"

redpacket_size(num_recipients) == REDPACKET_BASE_SIZE + PER_RECIPIENT_SIZE * num_recipients

rent_exempt(data_len) == (data_len + 128) * 2 * 3480

\* ------------------------------------------------------------- identities
Wallets == 1..NumWallets
Creators == {1}
AdminWallet == 2
ThirdParty == NumWallets
Ids == {1}
Bumps == {254, 255}
Mints == {USDC_MINT, NATIVE_SOL_MINT}

\* ---------------------------------------------------------------- addresses
\* An address is <<tag, a, b, bump>>: the seeds it is derived from (or, for a
\* wallet and its token account, the identity that holds its key).
WalletAddr(w) == <<"wallet", w, 0, 0>>
TokenAddr(w) == <<"wallet_token", w, 0, 0>>
NoAddress == <<"none", 0, 0, 0>>

\* create_program_address fails for the seeds whose hash lands on the curve;
\* the table fixes which: record bump 254 never derives, every other does.
OffCurve(tag, a, b, bump) == ~(tag = "redpacket" /\ bump = 254)

create_program_address(tag, a, b, bump) ==
    IF OffCurve(tag, a, b, bump) THEN <<tag, a, b, bump>> ELSE NoAddress

ADMIN == WalletAddr(AdminWallet)

RPAddrs == {<<"redpacket", c, i, 255>> : c \in Creators, i \in Ids}
VaultAddrs == {<<"vault", c, i, b>> : c \in Creators, i \in Ids, b \in Bumps}
TreasuryOf(mint) == <<"treasury", mint, 0, 255>>
TreasuryVaultOf(mint) == <<"treasury_vault", mint, 0, 255>>
TreasuryAddrs == {<<"treasury", m, 0, b>> : m \in Mints, b \in Bumps}
TreasuryVaultAddrs == {<<"treasury_vault", USDC_MINT, 0, b>> : b \in Bumps}
\* The treasuries the deployment initialises, at the bump find_program_address
\* returns.
DeployedTreasuries == {TreasuryOf(m) : m \in Mints}
DeployedTreasuryVaults == {TreasuryVaultOf(USDC_MINT)}
WalletAddrs == {WalletAddr(w) : w \in Wallets}
WalletTokenAddrs == {TokenAddr(w) : w \in Wallets}
TokenAddrs == WalletTokenAddrs \cup VaultAddrs \cup TreasuryVaultAddrs
Addrs == WalletAddrs \cup TokenAddrs \cup RPAddrs \cup TreasuryAddrs

\* ------------------------------------------------------------ account data
Zeros(n) == [i \in 1..n |-> 0]

\* The RedPacket record's storage of len bytes, every byte zero.
ZeroData(len) ==
    [len |-> len, disc |-> 0, creator |-> 0, id |-> 0, total_amount |-> 0,
     remaining_amount |-> 0, num_recipients |-> 0, num_claimed |-> 0,
     split_mode |-> 0, bump |-> 0, vault_bump |-> 0, token_type |-> 0,
     expires_at |-> 0,
     amounts |-> Zeros(IF len = 0 THEN 0 ELSE (len - REDPACKET_BASE_SIZE) \div PER_RECIPIENT_SIZE),
     claimers |-> Zeros(IF len = 0 THEN 0 ELSE (len - REDPACKET_BASE_SIZE) \div PER_RECIPIENT_SIZE)]

NoToken == [state |-> 0, mint |-> 0, owner |-> NoAddress, amount |-> 0]
NoTreasury == [len |-> 0, disc |-> 0, bump |-> 0, vault_bump |-> 0, mint |-> 0, sol_fees |-> 0]

\* The ledger the handlers run against.
Ledger == [lamports |-> lamports, owner |-> owner, rpdata |-> rpdata,
           token |-> token, treasury |-> treasury]

DataLen(L, addr) ==
    IF addr \in RPAddrs THEN L.rpdata[addr].len
    ELSE IF addr \in TreasuryAddrs THEN L.treasury[addr].len
    ELSE IF addr \in TokenAddrs /\ L.owner[addr] = TOKEN_PROGRAM_ID THEN TOKEN_ACCOUNT_SIZE
    ELSE 0

Discriminator(L, addr) ==
    IF addr \in RPAddrs THEN L.rpdata[addr].disc
    ELSE IF addr \in TreasuryAddrs THEN L.treasury[addr].disc
    ELSE 0

Ok(L) == [res |-> "Ok", L |-> L]
Err(e, L) == [res |-> e, L |-> L]

Rollback_keep(L, out) == out

\* An instruction that returns an error has every account write it made
\* discarded: the ledger is the one it started from.
Rollback(L, out) == IF out.res = "Ok" THEN out ELSE Err(out.res, L)

\* ------------------------------------------------------- checked arithmetic
wrapping_add(x, y) == IF x > U64_MAX - y THEN x - (U64_MAX - y) - 1 ELSE x + y

checked_add(x, y) == IF x > U64_MAX - y THEN -1 ELSE x + y
checked_sub(x, y) == IF y > x THEN -1 ELSE x - y
checked_mul(x, y) == IF y # 0 /\ x > U64_MAX \div y THEN -1 ELSE x * y

\* ------------------------------------------------ system and token programs
\* System program CreateAccount, invoked with the seeds of `to`.
CreateAccount_overwrite(L, from, to, lamps, space, new_owner) ==
    IF L.lamports[from] < lamps THEN Err("InsufficientFunds", L)
    ELSE Ok([L EXCEPT !.lamports = [@ EXCEPT ![from] = @ - lamps, ![to] = lamps],
                      !.owner = [@ EXCEPT ![to] = new_owner],
                      !.rpdata = IF to \in RPAddrs THEN [@ EXCEPT ![to] = ZeroData(space)] ELSE @,
                      !.token = IF to \in TokenAddrs THEN [@ EXCEPT ![to] = NoToken] ELSE @,
                      !.treasury = IF to \in TreasuryAddrs
                                   THEN [@ EXCEPT ![to] = [NoTreasury EXCEPT !.len = space]]
                                   ELSE @])

CreateAccount(L, from, to, lamps, space, new_owner) ==
    IF L.lamports[to] > 0 \/ L.owner[to] # SYSTEM_PROGRAM_ID \/ DataLen(L, to) > 0
    THEN Err("AccountAlreadyInUse", L)
    ELSE IF L.lamports[from] < lamps THEN Err("InsufficientFunds", L)
    ELSE Ok([L EXCEPT !.lamports = [@ EXCEPT ![from] = @ - lamps, ![to] = lamps],
                      !.owner = [@ EXCEPT ![to] = new_owner],
                      !.rpdata = IF to \in RPAddrs THEN [@ EXCEPT ![to] = ZeroData(space)] ELSE @,
                      !.token = IF to \in TokenAddrs THEN [@ EXCEPT ![to] = NoToken] ELSE @,
                      !.treasury = IF to \in TreasuryAddrs
                                   THEN [@ EXCEPT ![to] = [NoTreasury EXCEPT !.len = space]]
                                   ELSE @])

\* Token program InitializeAccount3.
InitializeAccount3(L, account, mint, tok_owner) ==
    IF account \notin TokenAddrs \/ L.owner[account] # TOKEN_PROGRAM_ID
       \/ L.token[account].state # 0 \/ mint # USDC_MINT
    THEN Err("TokenProgramError", L)
    ELSE Ok([L EXCEPT !.token = [@ EXCEPT ![account] =
                 [state |-> 1, mint |-> mint, owner |-> tok_owner, amount |-> 0]]])

IsTokenAccount(L, addr) ==
    addr \in TokenAddrs /\ L.owner[addr] = TOKEN_PROGRAM_ID /\ L.token[addr].state = 1

\* Token program Transfer: the authority must own `from` and have signed
\* (a wallet by its signature, a record by the seeds the program supplies).
Transfer(L, from, to, authority, authority_signed, amount) ==
    IF ~IsTokenAccount(L, from) \/ ~IsTokenAccount(L, to) THEN Err("TokenProgramError", L)
    ELSE IF L.token[from].amount < amount THEN Err("TokenProgramError", L)
    ELSE IF L.token[from].mint # L.token[to].mint THEN Err("TokenProgramError", L)
    ELSE IF L.token[from].owner # authority \/ ~authority_signed THEN Err("TokenProgramError", L)
    ELSE IF from = to THEN Ok(L)
    ELSE Ok([L EXCEPT !.token = [@ EXCEPT ![from].amount = @ - amount,
                                          ![to].amount = @ + amount]])

\* Token program CloseAccount: only an empty token account can be closed.
CloseAccount(L, account, destination, authority, authority_signed) ==
    IF ~IsTokenAccount(L, account) \/ account = destination THEN Err("TokenProgramError", L)
    ELSE IF L.token[account].amount # 0 THEN Err("TokenProgramError", L)
    ELSE IF L.token[account].owner # authority \/ ~authority_signed THEN Err("TokenProgramError", L)
    ELSE Ok([L EXCEPT !.lamports = [@ EXCEPT ![destination] = @ + L.lamports[account],
                                             ![account] = 0],
                      !.token = [@ EXCEPT ![account] = NoToken]])

\* ------------------------------------------------------------------ state.rs
validate_token_type(token_type) == token_type \in {TOKEN_TYPE_SPL, TOKEN_TYPE_SOL}

get_token_type(data) == data.token_type

validate_redpacket_any_owner(L, account) ==
    IF DataLen(L, account) < REDPACKET_BASE_SIZE THEN "InvalidAccountData"
    ELSE IF Discriminator(L, account) # REDPACKET_DISCRIMINATOR THEN "InvalidDiscriminator"
    ELSE "Ok"

validate_redpacket(L, account) ==
    IF L.owner[account] # ID THEN "InvalidAccountOwner"
    ELSE IF DataLen(L, account) < REDPACKET_BASE_SIZE THEN "InvalidAccountData"
    ELSE IF Discriminator(L, account) # REDPACKET_DISCRIMINATOR THEN "InvalidDiscriminator"
    ELSE "Ok"

get_amount_at_first(data, index) == data.amounts[1]

get_amount_at(data, index) == data.amounts[index + 1]

get_claimer_at(data, index) == data.claimers[index + 1]

has_claimed_none(data, num_claimed, claimer) == FALSE

has_claimed_short(data, num_claimed, claimer) ==
    \E i \in 0..(num_claimed - 2) : get_claimer_at(data, i) = claimer

has_claimed(data, num_claimed, claimer) ==
    \E i \in 0..(num_claimed - 1) : get_claimer_at(data, i) = claimer

set_claimer_at_first(data, index, claimer) == [data EXCEPT !.claimers[1] = claimer]

set_claimer_at(data, index, claimer) == [data EXCEPT !.claimers[index + 1] = claimer]

set_num_claimed_stuck(data, count) == data

set_num_claimed(data, count) == [data EXCEPT !.num_claimed = count]

set_remaining_amount_stale(data, amount) == data

set_remaining_amount(data, amount) == [data EXCEPT !.remaining_amount = amount]

init_redpacket_no_expiry(data, creator, id, total_amount, num_recipients, split_mode, bump, vault_bump, expires_at, amounts) ==
    [data EXCEPT !.disc = REDPACKET_DISCRIMINATOR, !.creator = creator, !.id = id,
                 !.total_amount = total_amount, !.remaining_amount = total_amount,
                 !.num_recipients = num_recipients, !.num_claimed = 0,
                 !.split_mode = split_mode, !.bump = bump, !.vault_bump = vault_bump,
                 !.amounts = [i \in 1..Len(@) |-> IF i <= Len(amounts) THEN amounts[i] ELSE @[i]]]

init_redpacket(data, creator, id, total_amount, num_recipients, split_mode, bump, vault_bump, expires_at, amounts) ==
    [data EXCEPT !.disc = REDPACKET_DISCRIMINATOR, !.creator = creator, !.id = id,
                 !.total_amount = total_amount, !.remaining_amount = total_amount,
                 !.num_recipients = num_recipients, !.num_claimed = 0,
                 !.split_mode = split_mode, !.bump = bump, !.vault_bump = vault_bump,
                 !.expires_at = expires_at,
                 !.amounts = [i \in 1..Len(@) |-> IF i <= Len(amounts) THEN amounts[i] ELSE @[i]]]

validate_treasury(L, account) ==
    IF L.owner[account] # ID THEN "InvalidAccountOwner"
    ELSE IF DataLen(L, account) < TREASURY_SIZE THEN "InvalidAccountData"
    ELSE IF Discriminator(L, account) # TREASURY_DISCRIMINATOR THEN "TreasuryNotInitialized"
    ELSE "Ok"

init_treasury(data, bump, vault_bump, mint) ==
    [data EXCEPT !.disc = TREASURY_DISCRIMINATOR, !.bump = bump,
                 !.vault_bump = vault_bump, !.mint = mint]

\* ------------------------------------------------- record bytes (state.rs)
\* Account data is a function from byte offsets 0..len-1 to bytes.  Values
\* in the model stay below 2^31, so the upper four bytes of a written u64
\* are zero; a value read from bytes that does not fit is Unrepresentable.
Unrepresentable == -1

Pow256(k) == IF k = 0 THEN 1 ELSE IF k = 1 THEN 256 ELSE IF k = 2 THEN 65536 ELSE 16777216

to_le_bytes(value) == [k \in 0..7 |-> IF k <= 3 THEN (value \div Pow256(k)) % 256 ELSE 0]

from_le_bytes(b) ==
    IF (\E k \in 4..7 : b[k] # 0) \/ b[3] > 127 THEN Unrepresentable
    ELSE b[0] + b[1] * 256 + b[2] * 65536 + b[3] * 16777216

\* A 32-byte identity: the model's identity number in the first byte.
pubkey_bytes(id) == [k \in 0..31 |-> IF k = 0 THEN id ELSE 0]

pubkey_from(b) == IF \E k \in 1..31 : b[k] # 0 THEN Unrepresentable ELSE b[0]

copy_from_slice(data, offset, n, bytes) ==
    [i \in DOMAIN data |-> IF i >= offset /\ i < offset + n THEN bytes[i - offset] ELSE data[i]]

slice(data, offset, n) == [k \in 0..(n - 1) |-> data[offset + k]]

write_u64(data, offset, value) == copy_from_slice(data, offset, 8, to_le_bytes(value))

read_u64(data, offset) == from_le_bytes(slice(data, offset, 8))

DISCRIMINATOR_OFFSET == 0
CREATOR_OFFSET == 1
ID_OFFSET == 33
TOTAL_AMOUNT_OFFSET == 41
REMAINING_AMOUNT_OFFSET == 49
NUM_RECIPIENTS_OFFSET == 57
NUM_CLAIMED_OFFSET == 58
SPLIT_MODE_OFFSET == 59
BUMP_OFFSET == 60
VAULT_BUMP_OFFSET == 61
EXPIRES_AT_OFFSET == 62
AMOUNTS_OFFSET == 70

claimers_offset(num_recipients) == AMOUNTS_OFFSET + 8 * num_recipients

RECURSIVE write_amounts(_, _, _)
write_amounts(data, amounts, k) ==
    IF k = 0 THEN data
    ELSE write_u64(write_amounts(data, amounts, k - 1), AMOUNTS_OFFSET + 8 * (k - 1), amounts[k])

RECURSIVE write_claimers(_, _, _, _)
write_claimers(data, num_recipients, claimers, k) ==
    IF k = 0 THEN data
    ELSE copy_from_slice(write_claimers(data, num_recipients, claimers, k - 1),
                         claimers_offset(num_recipients) + 32 * (k - 1), 32,
                         pubkey_bytes(claimers[k]))

\* The bytes of the account holding record r: the zeroed allocation of r.len
\* bytes with the writes of init_redpacket, set_remaining_amount,
\* set_num_claimed and set_claimer_at applied.
encode_redpacket(r) ==
    LET d0 == [i \in 0..(r.len - 1) |-> 0]
        d1 == [d0 EXCEPT ![DISCRIMINATOR_OFFSET] = r.disc]
        d2 == copy_from_slice(d1, CREATOR_OFFSET, 32, pubkey_bytes(r.creator))
        d3 == write_u64(d2, ID_OFFSET, r.id)
        d4 == write_u64(d3, TOTAL_AMOUNT_OFFSET, r.total_amount)
        d5 == write_u64(d4, REMAINING_AMOUNT_OFFSET, r.remaining_amount)
        d6 == [d5 EXCEPT ![NUM_RECIPIENTS_OFFSET] = r.num_recipients,
                         ![NUM_CLAIMED_OFFSET] = r.num_claimed,
                         ![SPLIT_MODE_OFFSET] = r.split_mode,
                         ![BUMP_OFFSET] = r.bump,
                         ![VAULT_BUMP_OFFSET] = r.vault_bump]
        d7 == write_u64(d6, EXPIRES_AT_OFFSET, r.expires_at)
        d8 == write_amounts(d7, r.amounts, r.num_recipients)
    IN write_claimers(d8, r.num_recipients, r.claimers, r.num_claimed)

\* The on-chain readers, applied to account bytes.
read_redpacket(data) ==
    LET n == data[NUM_RECIPIENTS_OFFSET] IN
    [creator |-> pubkey_from(slice(data, CREATOR_OFFSET, 32)),
     id |-> read_u64(data, ID_OFFSET),
     total_amount |-> read_u64(data, TOTAL_AMOUNT_OFFSET),
     remaining_amount |-> read_u64(data, REMAINING_AMOUNT_OFFSET),
     num_recipients |-> n,
     num_claimed |-> data[NUM_CLAIMED_OFFSET],
     split_mode |-> data[SPLIT_MODE_OFFSET],
     bump |-> data[BUMP_OFFSET],
     vault_bump |-> data[VAULT_BUMP_OFFSET],
     expires_at |-> read_u64(data, EXPIRES_AT_OFFSET),
     amounts |-> [i \in 1..n |-> read_u64(data, AMOUNTS_OFFSET + 8 * (i - 1))],
     claimers |-> [i \in 1..n |-> pubkey_from(slice(data, claimers_offset(n) + 32 * (i - 1), 32))]]

\* --------------------------------------------- front end (blinks program.rs)
\* How many of the n entries of entry_size bytes starting at offset lie
\* inside the data: the decoder stops at the first that does not.
EntriesInside(len, offset, entry_size, n) ==
    Cardinality({i \in 0..(n - 1) : offset + entry_size * i + entry_size <= len})

decode_red_packet(data) ==
    LET len == Cardinality(DOMAIN data)
        num_recipients == data[57]
        claimers_at == 71 + num_recipients * 8
    IN
    IF len < 71 THEN [error |-> "BadRequest"]
    ELSE IF data[0] # 1 THEN [error |-> "BadRequest"]
    ELSE [creator |-> pubkey_from(slice(data, 1, 32)),
          id |-> read_u64(data, 33),
          total_amount |-> read_u64(data, 41),
          remaining_amount |-> read_u64(data, 49),
          num_recipients |-> num_recipients,
          num_claimed |-> data[58],
          split_mode |-> data[59],
          bump |-> data[60],
          vault_bump |-> data[61],
          token_type |-> data[62],
          expires_at |-> read_u64(data, 63),
          amounts |-> [i \in 1..EntriesInside(len, 71, 8, num_recipients) |->
                          read_u64(data, 71 + (i - 1) * 8)],
          claimers |-> [i \in 1..EntriesInside(len, claimers_at, 32, num_recipients) |->
                          pubkey_from(slice(data, claimers_at + (i - 1) * 32, 32))]]

\* ------------------------------------------------------------------ claim.rs
\* a = [signer, signed, data, num_accounts, red_packet, vault, dest, token_program]
token_type_mismatch_never(stored, token_type) == FALSE

\* The tag of the instruction against the token_type stored in the record.
token_type_mismatch(stored, token_type) == stored # token_type

vault_mismatch_never(vault, expected_vault) == FALSE

\* The vault passed is not the address derived from the record's stored
\* creator, id and vault_bump (or those seeds derive no address).
vault_mismatch(vault, expected_vault) == expected_vault = NoAddress \/ vault # expected_vault

claim_expired_late(clock, expires_at) == clock > expires_at

claim_expired(clock, expires_at) == clock >= expires_at

claim_full_never(num_claimed, num_recipients) == FALSE

claim_full(num_claimed, num_recipients) == num_claimed >= num_recipients

process_claim(L, clock, a) ==
    IF a.data = <<>> THEN Err("InvalidInstructionData", L)
    ELSE IF ~validate_token_type(a.data[1]) THEN Err("InvalidTokenType", L)
    ELSE LET token_type == a.data[1]
             is_sol == token_type = TOKEN_TYPE_SOL
             min_accounts == IF is_sol THEN 3 ELSE 5
             claimer == WalletAddr(a.signer)
    IN
    IF a.num_accounts < min_accounts THEN Err("NotEnoughAccounts", L)
    ELSE IF ~is_sol /\ a.token_program # TOKEN_PROGRAM_ID THEN Err("InvalidTokenProgram", L)
    ELSE IF ~a.signed THEN Err("MissingRequiredSignature", L)
    ELSE IF validate_redpacket(L, a.red_packet) # "Ok" THEN Err(validate_redpacket(L, a.red_packet), L)
    ELSE LET rp_data == L.rpdata[a.red_packet]
             num_recipients == rp_data.num_recipients
             num_claimed == rp_data.num_claimed
             expected_vault == create_program_address("vault", rp_data.creator, rp_data.id, rp_data.vault_bump)
    IN
    IF token_type_mismatch(get_token_type(rp_data), token_type) THEN Err("InvalidTokenType", L)
    ELSE IF vault_mismatch(a.vault, expected_vault) THEN Err("InvalidPDA", L)
    ELSE IF claim_expired(clock, rp_data.expires_at) THEN Err("Expired", L)
    ELSE IF claim_full(num_claimed, num_recipients) THEN Err("RedPacketFull", L)
    ELSE IF has_claimed(rp_data, num_claimed, a.signer) THEN Err("AlreadyClaimed", L)
    ELSE LET amount == get_amount_at(rp_data, num_claimed)
             moved ==
                IF is_sol
                THEN IF L.owner[a.vault] # ID THEN Err("InvalidAccountOwner", L)
                     ELSE IF checked_sub(L.lamports[a.vault], amount) = -1
                             \/ checked_add(L.lamports[claimer], amount) = -1
                     THEN Err("ArithmeticOverflow", L)
                     ELSE Ok([L EXCEPT !.lamports = [@ EXCEPT ![a.vault] = @ - amount,
                                                              ![claimer] = @ + amount]])
                ELSE Transfer(L, a.vault, a.dest, a.red_packet, TRUE, amount)
    IN
    IF moved.res # "Ok" THEN Err(moved.res, L)
    ELSE LET remaining == checked_sub(rp_data.remaining_amount, amount)
             written == set_remaining_amount(
                            set_num_claimed(
                                set_claimer_at(rp_data, num_claimed, a.signer),
                                num_claimed + 1),
                            remaining)
    IN
    IF remaining = -1
    THEN Rollback(L, Err("ArithmeticOverflow",
                         [moved.L EXCEPT !.rpdata = [@ EXCEPT ![a.red_packet] =
                             set_num_claimed(set_claimer_at(rp_data, num_claimed, a.signer),
                                             num_claimed + 1)]]))
    ELSE Ok([moved.L EXCEPT !.rpdata = [@ EXCEPT ![a.red_packet] = written]])

\* ------------------------------------------------------------------ close.rs
\* a = [signer, signed, data, num_accounts, red_packet, vault, dest, token_program]
creator_matches_any(stored_creator, signer) == TRUE

creator_matches(stored_creator, signer) == stored_creator = signer

all_claimed_strict(num_claimed, num_recipients) == num_claimed > num_recipients

all_claimed(num_claimed, num_recipients) == num_claimed >= num_recipients

is_expired(clock, expires_at) == clock >= expires_at

\* The checks of Close, in order: the first error, or "Ok".
close_checks(L, clock, a) ==
    IF a.data = <<>> THEN "InvalidInstructionData"
    ELSE IF ~validate_token_type(a.data[1]) THEN "InvalidTokenType"
    ELSE LET token_type == a.data[1]
             is_sol == token_type = TOKEN_TYPE_SOL
             min_accounts == IF is_sol THEN 3 ELSE 5
    IN
    IF a.num_accounts < min_accounts THEN "NotEnoughAccounts"
    ELSE IF ~is_sol /\ a.token_program # TOKEN_PROGRAM_ID THEN "InvalidTokenProgram"
    ELSE IF ~a.signed THEN "MissingRequiredSignature"
    ELSE IF validate_redpacket(L, a.red_packet) # "Ok" THEN validate_redpacket(L, a.red_packet)
    ELSE LET rp_data == L.rpdata[a.red_packet]
             expected_vault == create_program_address("vault", rp_data.creator, rp_data.id, rp_data.vault_bump)
    IN
    IF token_type_mismatch(get_token_type(rp_data), token_type) THEN "InvalidTokenType"
    ELSE IF ~creator_matches(rp_data.creator, a.signer) THEN "Unauthorized"
    ELSE IF vault_mismatch(a.vault, expected_vault) THEN "InvalidPDA"
    ELSE IF ~all_claimed(rp_data.num_claimed, rp_data.num_recipients)
            /\ ~is_expired(clock, rp_data.expires_at) THEN "NotExpiredOrFull"
    ELSE "Ok"

drain_vault_remaining_only(L, a) ==
    LET creator == WalletAddr(a.signer)
        remaining_amount == L.rpdata[a.red_packet].remaining_amount
    IN
    IF a.data[1] = TOKEN_TYPE_SOL
    THEN Ok([L EXCEPT !.lamports = [@ EXCEPT ![creator] = @ + remaining_amount,
                                             ![a.vault] = @ - remaining_amount]])
    ELSE LET sent == IF remaining_amount > 0
                     THEN Transfer(L, a.vault, a.dest, a.red_packet, TRUE, remaining_amount)
                     ELSE Ok(L)
         IN IF sent.res # "Ok" THEN sent
            ELSE CloseAccount(sent.L, a.vault, creator, a.red_packet, TRUE)

\* The vault's value goes to the creator: all its lamports (native), or
\* remaining_amount tokens followed by closing the token account (fungible).
drain_vault(L, a) ==
    LET creator == WalletAddr(a.signer)
        remaining_amount == L.rpdata[a.red_packet].remaining_amount
    IN
    IF a.data[1] = TOKEN_TYPE_SOL
    THEN IF L.owner[a.vault] # ID THEN Err("InvalidAccountOwner", L)
         ELSE IF L.lamports[a.vault] > 0
         THEN IF checked_add(L.lamports[creator], L.lamports[a.vault]) = -1
              THEN Err("ArithmeticOverflow", L)
              ELSE Ok([L EXCEPT !.lamports = [@ EXCEPT ![creator] = @ + L.lamports[a.vault],
                                                       ![a.vault] = 0]])
         ELSE Ok(L)
    ELSE LET sent == IF remaining_amount > 0
                     THEN Transfer(L, a.vault, a.dest, a.red_packet, TRUE, remaining_amount)
                     ELSE Ok(L)
         IN IF sent.res # "Ok" THEN sent
            ELSE CloseAccount(sent.L, a.vault, creator, a.red_packet, TRUE)

drain_record_keep_data(D, creator, red_packet) ==
    Ok([D EXCEPT !.lamports = [@ EXCEPT ![creator] = @ + D.lamports[red_packet],
                                        ![red_packet] = 0]])

\* The record's lamports go to the creator and its data is zeroed.
drain_record(D, creator, red_packet) ==
    LET remaining_lamports == D.lamports[red_packet] IN
    IF checked_add(D.lamports[creator], remaining_lamports) = -1 THEN Err("ArithmeticOverflow", D)
    ELSE Ok([D EXCEPT !.lamports = [@ EXCEPT ![creator] = @ + remaining_lamports,
                                             ![red_packet] = 0],
                      !.rpdata = [@ EXCEPT ![red_packet] = ZeroData(@.len)]])

process_close(L, clock, a) ==
    LET checks == close_checks(L, clock, a) IN
    IF checks # "Ok" THEN Err(checks, L)
    ELSE LET drained == drain_vault(L, a) IN
    IF drained.res # "Ok" THEN Rollback(L, drained)
    ELSE LET zeroed == drain_record(drained.L, WalletAddr(a.signer), a.red_packet) IN
    IF zeroed.res # "Ok" THEN Rollback(L, zeroed)
    ELSE zeroed

\* ----------------------------------------------------------------- create.rs
\* a = [creator, signed, token_type, num_accounts, token_program, system_program,
\*      data_len, id, total_amount, num_recipients, split_mode, expires_at,
\*      rp_bump, vault_bump, amounts, creator_token_account, red_packet, vault,
\*      treasury, treasury_vault, mint]

create_expired_strict(clock, expires_at) == expires_at < clock

\* The deadline must lie strictly after the clock.
create_expired(clock, expires_at) == expires_at <= clock

\* Account, signer, program and payload checks.
create_checks(L, clock, a) ==
    LET expected_rp == create_program_address("redpacket", a.creator, a.id, a.rp_bump)
        expected_vault == create_program_address("vault", a.creator, a.id, a.vault_bump)
    IN
    IF a.num_accounts < 9 THEN "NotEnoughAccounts"
    ELSE IF ~a.signed THEN "MissingRequiredSignature"
    ELSE IF a.token_program # TOKEN_PROGRAM_ID THEN "InvalidTokenProgram"
    ELSE IF a.system_program # SYSTEM_PROGRAM_ID THEN "InvalidSystemProgram"
    ELSE IF a.data_len < 28 THEN "InvalidInstructionData"
    ELSE IF a.total_amount = 0 THEN "InvalidAmount"
    ELSE IF a.num_recipients = 0 \/ a.num_recipients > MAX_RECIPIENTS THEN "InvalidRecipientCount"
    ELSE IF a.split_mode # SPLIT_EVEN /\ a.split_mode # SPLIT_RANDOM THEN "InvalidSplitMode"
    ELSE IF create_expired(clock, a.expires_at) THEN "Expired"
    ELSE IF expected_rp = NoAddress \/ a.red_packet # expected_rp THEN "InvalidPDA"
    ELSE IF expected_vault = NoAddress \/ a.vault # expected_vault THEN "InvalidPDA"
    ELSE IF validate_treasury(L, a.treasury) # "Ok" THEN validate_treasury(L, a.treasury)
    ELSE IF a.mint # L.treasury[a.treasury].mint THEN "InvalidMint"
    ELSE "Ok"

RECURSIVE SumTo(_, _)
SumTo(seq, k) == IF k = 0 THEN 0 ELSE SumTo(seq, k - 1) + seq[k]

\* The running sum of the first k amounts as the loop of Random mode keeps
\* it: -1 from the first addition that overflows.
RECURSIVE checked_sum(_, _)
checked_sum(seq, k) ==
    IF k = 0 THEN 0
    ELSE IF checked_sum(seq, k - 1) = -1 THEN -1
    ELSE checked_add(checked_sum(seq, k - 1), seq[k])

amount_is_zero_never(amount) == FALSE

\* Random mode: a slot amount of zero is rejected.
amount_is_zero(amount) == amount = 0

even_amount_at_first(per_person, remainder, n, i) ==
    IF i = 1 THEN per_person + remainder ELSE per_person

even_amount_at_all(per_person, remainder, n, i) == per_person + remainder

\* Even mode: every slot gets per_person, the last one the remainder too.
even_amount_at(per_person, remainder, n, i) ==
    IF i = n THEN per_person + remainder ELSE per_person

\* The per-slot amounts: [res, amounts].
compute_amounts(a) ==
    LET n == a.num_recipients IN
    IF a.split_mode = SPLIT_EVEN
    THEN LET per_person == a.total_amount \div n
             remainder == a.total_amount % n
         IN IF checked_add(per_person, remainder) = -1
            THEN [res |-> "ArithmeticOverflow", amounts |-> <<>>]
            ELSE [res |-> "Ok",
                  amounts |-> [i \in 1..n |-> even_amount_at(per_person, remainder, n, i)]]
    ELSE IF Len(a.amounts) < n THEN [res |-> "InvalidInstructionData", amounts |-> <<>>]
    ELSE IF \E i \in 1..n : amount_is_zero(a.amounts[i]) /\ checked_sum(a.amounts, i - 1) # -1
         THEN [res |-> "InvalidAmount", amounts |-> <<>>]
    ELSE IF checked_sum(a.amounts, n) = -1
         THEN [res |-> "ArithmeticOverflow", amounts |-> <<>>]
    ELSE IF checked_sum(a.amounts, n) # a.total_amount THEN [res |-> "AmountMismatch", amounts |-> <<>>]
    ELSE [res |-> "Ok", amounts |-> [i \in 1..n |-> a.amounts[i]]]

Max(x, y) == IF x >= y THEN x ELSE y

compute_fee_no_floor(total_amount) ==
    IF checked_mul(total_amount, FEE_RATE_BPS) = -1 THEN -1
    ELSE checked_mul(total_amount, FEE_RATE_BPS) \div FEE_DENOMINATOR

\* The fee, or -1 when the multiplication overflows.
compute_fee(total_amount) ==
    IF checked_mul(total_amount, FEE_RATE_BPS) = -1 THEN -1
    ELSE Max(1, checked_mul(total_amount, FEE_RATE_BPS) \div FEE_DENOMINATOR)

\* The front end's fee preview; its multiplication is unchecked, so it is
\* meaningful only where total_amount * FEE_RATE_BPS fits the integer width.
blinks_compute_fee(total_amount) ==
    LET fee == (total_amount * FEE_RATE_BPS) \div FEE_DENOMINATOR
    IN IF fee > 0 THEN fee ELSE 1

\* Create of a fungible-asset packet.
process_create(L, clock, a) ==
    LET checks == create_checks(L, clock, a)
        split == compute_amounts(a)
        fee == compute_fee(a.total_amount)
        creator == WalletAddr(a.creator)
    IN
    IF checks # "Ok" THEN Err(checks, L)
    ELSE IF split.res # "Ok" THEN Err(split.res, L)
    ELSE IF fee = -1 THEN Err("ArithmeticOverflow", L)
    ELSE LET account_size == redpacket_size(a.num_recipients)
             r1 == CreateAccount(L, creator, a.red_packet, rent_exempt(account_size), account_size, ID)
             r2 == CreateAccount(r1.L, creator, a.vault, rent_exempt(TOKEN_ACCOUNT_SIZE), TOKEN_ACCOUNT_SIZE, TOKEN_PROGRAM_ID)
             r3 == InitializeAccount3(r2.L, a.vault, a.mint, a.red_packet)
             r4 == Transfer(r3.L, a.creator_token_account, a.vault, creator, TRUE, a.total_amount)
             r5 == Transfer(r4.L, a.creator_token_account, a.treasury_vault, creator, TRUE, fee)
    IN
    IF r1.res # "Ok" THEN Rollback(L, r1)
    ELSE IF r2.res # "Ok" THEN Rollback(L, r2)
    ELSE IF r3.res # "Ok" THEN Rollback(L, r3)
    ELSE IF r4.res # "Ok" THEN Rollback(L, r4)
    ELSE IF r5.res # "Ok" THEN Rollback(L, r5)
    ELSE Ok([r5.L EXCEPT !.rpdata = [@ EXCEPT ![a.red_packet] =
                init_redpacket(@, a.creator, a.id, a.total_amount, a.num_recipients,
                               a.split_mode, a.rp_bump, a.vault_bump, a.expires_at, split.amounts)]])

\* System program Transfer of lamports from a signing wallet.
SystemTransfer(L, from, to, lamps) ==
    IF L.lamports[from] < lamps THEN Err("InsufficientFunds", L)
    ELSE IF from = to THEN Ok(L)
    ELSE Ok([L EXCEPT !.lamports = [@ EXCEPT ![from] = @ - lamps, ![to] = @ + lamps]])

\* Create of a native-asset packet: the vault is a data-less account of the
\* program holding the deposit as lamports; the fee is paid into the native
\* treasury's own balance and counted in its fees_collected.
process_create_sol(L, clock, a) ==
    LET checks == create_checks(L, clock, a)
        split == compute_amounts(a)
        fee == compute_fee(a.total_amount)
        creator == WalletAddr(a.creator)
    IN
    IF checks # "Ok" THEN Err(checks, L)
    ELSE IF split.res # "Ok" THEN Err(split.res, L)
    ELSE IF fee = -1 THEN Err("ArithmeticOverflow", L)
    ELSE LET account_size == redpacket_size(a.num_recipients)
             r1 == CreateAccount(L, creator, a.red_packet, rent_exempt(account_size), account_size, ID)
             r2 == CreateAccount(r1.L, creator, a.vault, rent_exempt(0), 0, ID)
             r3 == SystemTransfer(r2.L, creator, a.vault, a.total_amount)
             r4 == SystemTransfer(r3.L, creator, a.treasury, fee)
    IN
    IF r1.res # "Ok" THEN Err(r1.res, L)
    ELSE IF r2.res # "Ok" THEN Err(r2.res, L)
    ELSE IF r3.res # "Ok" THEN Err(r3.res, L)
    ELSE IF r4.res # "Ok" THEN Err(r4.res, L)
    ELSE IF checked_add(L.treasury[a.treasury].sol_fees, fee) = -1 THEN Err("ArithmeticOverflow", L)
    ELSE Ok([r4.L EXCEPT !.treasury = [@ EXCEPT ![a.treasury].sol_fees = @ + fee],
                         !.rpdata = [@ EXCEPT ![a.red_packet] =
                [init_redpacket(@, a.creator, a.id, a.total_amount, a.num_recipients,
                                a.split_mode, a.rp_bump, a.vault_bump, a.expires_at, split.amounts)
                 EXCEPT !.token_type = TOKEN_TYPE_SOL]]])

\* ---------------------------------------------------------- withdraw_fees.rs
get_sol_fees_collected(tdata) == tdata.sol_fees

set_sol_fees_collected(tdata, value) == [tdata EXCEPT !.sol_fees = value]

saturating_sub(x, y) == IF y > x THEN 0 ELSE x - y

Min(x, y) == IF x <= y THEN x ELSE y

\* ------------------------------------ random split (blinks program.rs 186-222)
\* The generator draws num_recipients - 1 random fractions in [0, 1) and
\* sorts them; it uses each only through floor(cut * total), which for
\* sorted fractions is a non-decreasing sequence over 0..total-1.
SortedCuts(total_amount, num_recipients) ==
    {f \in [1..(num_recipients - 1) -> 0..(total_amount - 1)] :
        \A i, j \in 1..(num_recipients - 1) : i <= j => f[i] <= f[j]}

generate_random_split(total_amount, num_recipients, floors) ==
    IF num_recipients = 0 THEN << >>
    ELSE IF num_recipients = 1 THEN <<total_amount>>
    ELSE
        LET prev(i) == IF i = 1 THEN 0 ELSE floors[i - 1]
            last_slot == num_recipients
            amounts == [i \in 1..num_recipients |->
                          IF i < last_slot THEN Max(1, floors[i] - prev(i))
                          ELSE saturating_sub(total_amount, prev(i))]
            sum == SumTo(amounts, num_recipients)
        IN
        IF sum = total_amount THEN amounts
        ELSE IF sum < total_amount
             THEN [amounts EXCEPT ![last_slot] = @ + (total_amount - sum)]
             ELSE [amounts EXCEPT ![last_slot] = saturating_sub(@, sum - total_amount)]

is_admin_any(admin) == TRUE

\* The signer must be the fixed administrator.
is_admin(admin) == admin = ADMIN

debit_forgotten(balance, withdraw_amount) == balance

\* The treasury's balance after paying out.
debit(balance, withdraw_amount) == balance - withdraw_amount

\* What a native treasury can pay out.
available_sol(sol_fees, lamports_above_rent) == Min(sol_fees, lamports_above_rent)

withdraw_amount_zero_ok(amount, available) ==
    LET withdraw_amount == IF amount = 0 THEN available ELSE amount
    IN IF withdraw_amount > available THEN -1 ELSE withdraw_amount

withdraw_amount_unbounded(amount, available) ==
    LET withdraw_amount == IF amount = 0 THEN available ELSE amount
    IN IF withdraw_amount = 0 THEN -1 ELSE withdraw_amount

\* The amount to pay out, or -1 for InsufficientTreasuryBalance; a request of
\* zero asks for all that is available.
withdraw_amount_of(amount, available) ==
    LET withdraw_amount == IF amount = 0 THEN available ELSE amount
    IN IF withdraw_amount = 0 THEN -1
       ELSE IF withdraw_amount > available THEN -1
       ELSE withdraw_amount

\* A withdraw request:
\*     [admin, signed, data_len, token_type, amount, num_accounts,
\*      admin_token_account, treasury, treasury_vault, token_program]
withdraw_sol(L, a) ==
    LET admin == WalletAddr(a.admin)
        valid == validate_treasury(L, a.treasury)
    IN
    IF valid # "Ok" THEN Err(valid, L)
    ELSE LET tdata == L.treasury[a.treasury]
             expected_treasury == create_program_address("treasury", NATIVE_SOL_MINT, 0, tdata.bump)
             treasury_rent == rent_exempt(TREASURY_SIZE)
             sol_fees == get_sol_fees_collected(tdata)
             lamports_above_rent == saturating_sub(L.lamports[a.treasury], treasury_rent)
             available == available_sol(sol_fees, lamports_above_rent)
             withdraw_amount == withdraw_amount_of(a.amount, available)
    IN
    IF expected_treasury = NoAddress \/ a.treasury # expected_treasury THEN Err("InvalidPDA", L)
    ELSE IF withdraw_amount = -1 THEN Err("InsufficientTreasuryBalance", L)
    ELSE IF checked_sub(L.lamports[a.treasury], withdraw_amount) = -1 THEN Err("ArithmeticOverflow", L)
    ELSE IF checked_add(L.lamports[admin], withdraw_amount) = -1 THEN Err("ArithmeticOverflow", L)
    ELSE IF checked_sub(sol_fees, withdraw_amount) = -1 THEN Err("ArithmeticOverflow", L)
    ELSE Ok([L EXCEPT !.lamports = [@ EXCEPT ![a.treasury] = debit(@, withdraw_amount),
                                             ![admin] = @ + withdraw_amount],
                      !.treasury = [@ EXCEPT ![a.treasury] =
                                        set_sol_fees_collected(@, sol_fees - withdraw_amount)]])

withdraw_spl(L, a) ==
    LET valid == validate_treasury(L, a.treasury) IN
    IF a.token_program # TOKEN_PROGRAM_ID THEN Err("InvalidTokenProgram", L)
    ELSE IF valid # "Ok" THEN Err(valid, L)
    ELSE LET tdata == L.treasury[a.treasury]
             expected_treasury == create_program_address("treasury", tdata.mint, 0, tdata.bump)
             expected_tv == create_program_address("treasury_vault", tdata.mint, 0, tdata.vault_bump)
             vault_balance == L.token[a.treasury_vault].amount
             withdraw_amount == withdraw_amount_of(a.amount, vault_balance)
    IN
    IF expected_treasury = NoAddress \/ a.treasury # expected_treasury THEN Err("InvalidPDA", L)
    ELSE IF expected_tv = NoAddress \/ a.treasury_vault # expected_tv THEN Err("InvalidPDA", L)
    ELSE IF DataLen(L, a.treasury_vault) < 72 THEN Err("InvalidTokenAccount", L)
    ELSE IF withdraw_amount = -1 THEN Err("InsufficientTreasuryBalance", L)
    ELSE LET t == Transfer(L, a.treasury_vault, a.admin_token_account, a.treasury, TRUE, withdraw_amount)
         IN IF t.res # "Ok" THEN Err(t.res, L) ELSE t

process_withdraw_fees(L, a) ==
    LET is_sol == a.token_type = TOKEN_TYPE_SOL
        min_accounts == IF is_sol THEN 2 ELSE 5
    IN
    IF a.data_len < 9 THEN Err("InvalidInstructionData", L)
    ELSE IF ~validate_token_type(a.token_type) THEN Err("InvalidTokenType", L)
    ELSE IF a.num_accounts < min_accounts THEN Err("NotEnoughAccounts", L)
    ELSE IF ~a.signed THEN Err("MissingRequiredSignature", L)
    ELSE IF ~is_admin(WalletAddr(a.admin)) THEN Err("UnauthorizedAdmin", L)
    ELSE IF is_sol THEN withdraw_sol(L, a)
    ELSE withdraw_spl(L, a)

\* ---------------------------------------------------------- init_treasury.rs
\* An InitTreasury request:
\*     [payer, signed, data_len, token_type, treasury_bump, vault_bump,
\*      num_accounts, treasury, treasury_vault, mint, token_program,
\*      system_program]
\* The handler's steps; an error after the treasury account has been created
\* carries the ledger as written so far.
init_treasury_steps(L, a) ==
    LET is_sol == a.token_type = TOKEN_TYPE_SOL
        min_accounts == IF is_sol THEN 3 ELSE 6
        payer == WalletAddr(a.payer)
        mint_bytes == IF is_sol THEN NATIVE_SOL_MINT ELSE a.mint
        expected_treasury == create_program_address("treasury", mint_bytes, 0, a.treasury_bump)
    IN
    IF a.data_len < 3 THEN Err("InvalidInstructionData", L)
    ELSE IF ~validate_token_type(a.token_type) THEN Err("InvalidTokenType", L)
    ELSE IF a.num_accounts < min_accounts THEN Err("NotEnoughAccounts", L)
    ELSE IF ~a.signed THEN Err("MissingRequiredSignature", L)
    ELSE IF ~is_sol /\ a.token_program # TOKEN_PROGRAM_ID THEN Err("InvalidTokenProgram", L)
    ELSE IF a.system_program # SYSTEM_PROGRAM_ID THEN Err("InvalidSystemProgram", L)
    ELSE IF expected_treasury = NoAddress \/ a.treasury # expected_treasury THEN Err("InvalidPDA", L)
    ELSE IF L.lamports[a.treasury] > 0 THEN Err("TreasuryAlreadyInitialized", L)
    ELSE LET r1 == CreateAccount(L, payer, a.treasury, rent_exempt(TREASURY_SIZE), TREASURY_SIZE, ID)
             effective_vault_bump == IF is_sol THEN 0 ELSE a.vault_bump
             L2 == [r1.L EXCEPT !.treasury = [@ EXCEPT ![a.treasury] =
                        init_treasury(@, a.treasury_bump, effective_vault_bump, mint_bytes)]]
             expected_vault == create_program_address("treasury_vault", a.mint, 0, a.vault_bump)
    IN
    IF r1.res # "Ok" THEN r1
    ELSE IF is_sol THEN Ok(L2)
    ELSE IF expected_vault = NoAddress \/ a.treasury_vault # expected_vault THEN Err("InvalidPDA", L2)
    ELSE LET r2 == CreateAccount(L2, payer, a.treasury_vault, rent_exempt(TOKEN_ACCOUNT_SIZE),
                                 TOKEN_ACCOUNT_SIZE, TOKEN_PROGRAM_ID)
             r3 == InitializeAccount3(r2.L, a.treasury_vault, a.mint, a.treasury)
         IN IF r2.res # "Ok" THEN r2 ELSE r3

process_init_treasury(L, a) == Rollback(L, init_treasury_steps(L, a))

\* The dispatcher's Create arm, by the asset kind the request names.
dispatch_create(L, clock, a) ==
    IF ~validate_token_type(a.token_type) THEN Err("InvalidTokenType", L)
    ELSE IF a.token_type = TOKEN_TYPE_SOL THEN process_create_sol(L, clock, a)
    ELSE process_create(L, clock, a)

\* ------------------------------------------------------------------ requests
LiveRecord(r) == r \in RPAddrs /\ owner[r] = ID /\ rpdata[r].disc = REDPACKET_DISCRIMINATOR

\* The vault address a client derives for record address r: from the record's
\* stored vault_bump when the record is live.
StoredVault(r) == <<"vault", r[2], r[3], IF LiveRecord(r) THEN rpdata[r].vault_bump ELSE 255>>
OtherVault(r) == <<"vault", r[2], r[3], IF LiveRecord(r) THEN 509 - rpdata[r].vault_bump ELSE 254>>
StoredType(r) == IF LiveRecord(r) THEN rpdata[r].token_type ELSE TOKEN_TYPE_SOL

\* Claim and Close requests of signer w against account r: the well-formed
\* request and each single deviation from it.
WellFormed(w, r) ==
    [signer |-> w, signed |-> TRUE, data |-> <<StoredType(r)>>, num_accounts |-> 5,
     red_packet |-> r, vault |-> StoredVault(r), dest |-> TokenAddr(w),
     token_program |-> TOKEN_PROGRAM_ID]

Requests(w, r) ==
    LET wf == WellFormed(w, r) IN
    {wf,
     [wf EXCEPT !.signed = FALSE],
     [wf EXCEPT !.data = <<>>],
     [wf EXCEPT !.data = <<2>>],
     [wf EXCEPT !.data = <<1 - StoredType(r)>>],
     [wf EXCEPT !.num_accounts = 2],
     [wf EXCEPT !.token_program = SYSTEM_PROGRAM_ID],
     [wf EXCEPT !.vault = OtherVault(r)],
     [wf EXCEPT !.dest = StoredVault(r)]}

RecordCandidates == RPAddrs \cup {TreasuryOf(NATIVE_SOL_MINT)}

AllRequests == UNION {Requests(w, r) : w \in Wallets, r \in RecordCandidates}

\* The requests the Claim and Close actions submit.
Submitted == {WellFormed(w, r) : w \in Wallets, r \in RPAddrs}

\* Compositions of total into n positive parts, and the per-slot payloads a
\* Random-mode Create may carry.
Payloads(total, n) == {q \in [1..n -> 0..total] : TRUE}

WellFormedCreate(c, tt, total, n, mode, exp, vb, amts) ==
    [creator |-> c, signed |-> TRUE, token_type |-> tt, num_accounts |-> 9,
     token_program |-> TOKEN_PROGRAM_ID, system_program |-> SYSTEM_PROGRAM_ID,
     data_len |-> 28 + 8 * Len(amts), id |-> 1, total_amount |-> total,
     num_recipients |-> n, split_mode |-> mode, expires_at |-> exp,
     rp_bump |-> 255, vault_bump |-> vb, amounts |-> amts,
     creator_token_account |-> TokenAddr(c),
     red_packet |-> <<"redpacket", c, 1, 255>>, vault |-> <<"vault", c, 1, vb>>,
     treasury |-> TreasuryOf(IF tt = TOKEN_TYPE_SOL THEN NATIVE_SOL_MINT ELSE USDC_MINT),
     treasury_vault |-> TreasuryVaultOf(USDC_MINT),
     mint |-> IF tt = TOKEN_TYPE_SOL THEN NATIVE_SOL_MINT ELSE USDC_MINT]

\* The expiry every submitted Create asks for: the clock can stand before it,
\* at it and past it.
ExpiresAt == MaxTime - 1

\* Requests whose range, address and asset arguments are all as a client
\* would send them; a Random-mode payload may still be wrong.  Random-mode
\* requests name the token asset, whose handler holds the split code.  One
\* deposit per asset kind is large enough for the fee to exceed its floor.
FirstCreates ==
    {WellFormedCreate(c, tt, total, n, SPLIT_EVEN, ExpiresAt, 255, <<>>) :
        c \in Creators, tt \in {TOKEN_TYPE_SPL, TOKEN_TYPE_SOL}, total \in 1..MaxTotal,
        n \in 1..MaxN}
    \cup {WellFormedCreate(c, tt, FeeTotal, 1, SPLIT_EVEN, ExpiresAt, 255, <<>>) :
        c \in Creators, tt \in {TOKEN_TYPE_SPL, TOKEN_TYPE_SOL}}
    \cup UNION {{WellFormedCreate(c, tt, total, n, SPLIT_RANDOM, ExpiresAt, 254, q) : q \in Payloads(total, n)} :
        c \in Creators, tt \in {TOKEN_TYPE_SPL}, total \in 1..MaxTotal,
        n \in 1..MaxN}

\* A later Create at an address that was used before.
LaterCreates ==
    {WellFormedCreate(c, TOKEN_TYPE_SPL, 1, 1, SPLIT_EVEN, ExpiresAt, 255, <<>>) : c \in Creators}

Deviations(wf) ==
    {[wf EXCEPT !.signed = FALSE],
     [wf EXCEPT !.num_accounts = 8],
     [wf EXCEPT !.token_program = SYSTEM_PROGRAM_ID],
     [wf EXCEPT !.system_program = TOKEN_PROGRAM_ID],
     [wf EXCEPT !.data_len = 27],
     [wf EXCEPT !.total_amount = 0],
     [wf EXCEPT !.num_recipients = 0],
     [wf EXCEPT !.num_recipients = MAX_RECIPIENTS + 1],
     [wf EXCEPT !.split_mode = 2],
     [wf EXCEPT !.expires_at = now],
     [wf EXCEPT !.rp_bump = 254],
     [wf EXCEPT !.red_packet = TreasuryOf(USDC_MINT)],
     [wf EXCEPT !.vault = <<"vault", wf.creator, wf.id, 509 - wf.vault_bump>>],
     [wf EXCEPT !.treasury = TreasuryOf(IF wf.token_type = TOKEN_TYPE_SOL THEN USDC_MINT ELSE NATIVE_SOL_MINT)],
     [wf EXCEPT !.treasury = <<"vault", wf.creator, wf.id, wf.vault_bump>>],
     [wf EXCEPT !.treasury_vault = TokenAddr(wf.creator)],
     [wf EXCEPT !.split_mode = SPLIT_RANDOM, !.amounts = <<>>]}

CreateRequests ==
    IF numCreates = 0
    THEN FirstCreates \cup Deviations(WellFormedCreate(1, TOKEN_TYPE_SPL, 1, 1, SPLIT_EVEN, ExpiresAt, 255, <<>>))
                      \cup Deviations(WellFormedCreate(1, TOKEN_TYPE_SOL, 1, 1, SPLIT_EVEN, ExpiresAt, 255, <<>>))
    ELSE LaterCreates

\* A withdraw request as a client builds it for signer w.
WellFormedWithdraw(w, tt, amount) ==
    [admin |-> w, signed |-> TRUE, data_len |-> 9, token_type |-> tt, amount |-> amount,
     num_accounts |-> IF tt = TOKEN_TYPE_SOL THEN 2 ELSE 5,
     admin_token_account |-> TokenAddr(w),
     treasury |-> TreasuryOf(IF tt = TOKEN_TYPE_SOL THEN NATIVE_SOL_MINT ELSE USDC_MINT),
     treasury_vault |-> TreasuryVaultOf(USDC_MINT),
     token_program |-> TOKEN_PROGRAM_ID]

WithdrawDeviations(wf) ==
    {wf,
     [wf EXCEPT !.signed = FALSE],
     [wf EXCEPT !.data_len = 8],
     [wf EXCEPT !.token_type = 2],
     [wf EXCEPT !.num_accounts = @ - 1],
     [wf EXCEPT !.token_program = SYSTEM_PROGRAM_ID],
     [wf EXCEPT !.treasury = TreasuryOf(IF wf.token_type = TOKEN_TYPE_SOL THEN USDC_MINT ELSE NATIVE_SOL_MINT)],
     [wf EXCEPT !.treasury = WalletAddr(wf.admin)],
     [wf EXCEPT !.treasury_vault = TokenAddr(wf.admin)]}

WithdrawRequests ==
    {WellFormedWithdraw(w, tt, amount) :
        w \in Wallets, tt \in {TOKEN_TYPE_SPL, TOKEN_TYPE_SOL}, amount \in 0..MaxWithdraw}

\* An InitTreasury request as a client builds it for payer w, asset kind tt
\* and the bumps tb (treasury) and vb (treasury vault).
WellFormedInit(w, tt, tb, vb) ==
    [payer |-> w, signed |-> TRUE, data_len |-> 3, token_type |-> tt,
     treasury_bump |-> tb, vault_bump |-> vb,
     num_accounts |-> IF tt = TOKEN_TYPE_SOL THEN 3 ELSE 6,
     treasury |-> <<"treasury", IF tt = TOKEN_TYPE_SOL THEN NATIVE_SOL_MINT ELSE USDC_MINT, 0, tb>>,
     treasury_vault |-> <<"treasury_vault", USDC_MINT, 0, vb>>,
     mint |-> USDC_MINT,
     token_program |-> TOKEN_PROGRAM_ID, system_program |-> SYSTEM_PROGRAM_ID]

InitDeviations(wf) ==
    {[wf EXCEPT !.signed = FALSE],
     [wf EXCEPT !.data_len = 2],
     [wf EXCEPT !.token_type = 2],
     [wf EXCEPT !.num_accounts = @ - 1],
     [wf EXCEPT !.token_program = SYSTEM_PROGRAM_ID],
     [wf EXCEPT !.system_program = TOKEN_PROGRAM_ID],
     [wf EXCEPT !.treasury = <<"treasury", @[2], 0, 509 - @[4]>>],
     [wf EXCEPT !.treasury_vault = <<"treasury_vault", USDC_MINT, 0, 509 - @[4]>>],
     [wf EXCEPT !.treasury_vault = TokenAddr(wf.payer)]}

InitRequests ==
    {WellFormedInit(w, tt, tb, vb) :
        w \in Wallets, tt \in {TOKEN_TYPE_SPL, TOKEN_TYPE_SOL}, tb \in Bumps, vb \in Bumps}
    \cup UNION {InitDeviations(WellFormedInit(AdminWallet, tt, 255, 255)) :
                    tt \in {TOKEN_TYPE_SPL, TOKEN_TYPE_SOL}}

\* ------------------------------------------------------------ initial state
\* After deployment and the one-time InitTreasury of both asset kinds.
Init ==
    /\ lamports = [x \in Addrs |->
            IF x \in WalletAddrs THEN InitLamports
            ELSE IF x \in WalletTokenAddrs \/ x \in DeployedTreasuryVaults THEN rent_exempt(TOKEN_ACCOUNT_SIZE)
            ELSE IF x \in DeployedTreasuries THEN rent_exempt(TREASURY_SIZE)
            ELSE 0]
    /\ owner = [x \in Addrs |->
            IF x \in WalletTokenAddrs \/ x \in DeployedTreasuryVaults THEN TOKEN_PROGRAM_ID
            ELSE IF x \in DeployedTreasuries THEN ID
            ELSE SYSTEM_PROGRAM_ID]
    /\ rpdata = [x \in RPAddrs |-> ZeroData(0)]
    /\ token = [x \in TokenAddrs |->
            IF x \in WalletTokenAddrs
            THEN [state |-> 1, mint |-> USDC_MINT, owner |-> WalletAddr(x[2]), amount |-> InitTokens]
            ELSE IF x \in DeployedTreasuryVaults
            THEN [state |-> 1, mint |-> USDC_MINT, owner |-> TreasuryOf(USDC_MINT), amount |-> 0]
            ELSE NoToken]
    /\ treasury = [x \in TreasuryAddrs |->
            IF x \in DeployedTreasuries
            THEN [len |-> TREASURY_SIZE, disc |-> TREASURY_DISCRIMINATOR, bump |-> 255,
                  vault_bump |-> IF x[2] = NATIVE_SOL_MINT THEN 0 ELSE 255,
                  mint |-> x[2], sol_fees |-> 0]
            ELSE NoTreasury]
    /\ now = 0
    /\ last = [op |-> "Init", res |-> "Ok", who |-> 0, rp |-> NoAddress]
    /\ paid = [x \in RPAddrs |-> 0]
    /\ closed = {}
    /\ numCreates = 0
    /\ numDeposits = 0

\* After deployment, before any InitTreasury: wallets and their token
\* accounts only.
Undeployed ==
    /\ lamports = [x \in Addrs |->
            IF x \in WalletAddrs THEN InitLamports
            ELSE IF x \in WalletTokenAddrs THEN rent_exempt(TOKEN_ACCOUNT_SIZE)
            ELSE 0]
    /\ owner = [x \in Addrs |->
            IF x \in WalletTokenAddrs THEN TOKEN_PROGRAM_ID ELSE SYSTEM_PROGRAM_ID]
    /\ rpdata = [x \in RPAddrs |-> ZeroData(0)]
    /\ token = [x \in TokenAddrs |->
            IF x \in WalletTokenAddrs
            THEN [state |-> 1, mint |-> USDC_MINT, owner |-> WalletAddr(x[2]), amount |-> InitTokens]
            ELSE NoToken]
    /\ treasury = [x \in TreasuryAddrs |-> NoTreasury]
    /\ now = 0
    /\ last = [op |-> "Init", res |-> "Ok", who |-> 0, rp |-> NoAddress]
    /\ paid = [x \in RPAddrs |-> 0]
    /\ closed = {}
    /\ numCreates = 0
    /\ numDeposits = 0

\* ------------------------------------------------------------------ actions
Commit(out) ==
    /\ lamports' = out.L.lamports
    /\ owner' = out.L.owner
    /\ rpdata' = out.L.rpdata
    /\ token' = out.L.token
    /\ treasury' = out.L.treasury

Outcome(op, out, who, rp) ==
    IF out.res = "Ok" THEN [op |-> op, res |-> "Ok", who |-> who, rp |-> rp]
    ELSE [op |-> op, res |-> out.res, who |-> 0, rp |-> NoAddress]

\* What last holds after a step that is not an instruction of the program.
Environment == [op |-> "Environment", res |-> "Ok", who |-> 0, rp |-> NoAddress]

Create ==
    /\ numCreates < MaxCreates
    /\ \E a \in CreateRequests :
        LET out == dispatch_create(Ledger, now, a)
        IN /\ Commit(out)
           /\ last' = Outcome("Create", out, a.creator, a.red_packet)
           /\ paid' = IF out.res = "Ok" THEN [paid EXCEPT ![a.red_packet] = 0] ELSE paid
           /\ closed' = IF out.res = "Ok" THEN closed \ {a.red_packet} ELSE closed
           /\ numCreates' = IF out.res = "Ok" THEN numCreates + 1 ELSE numCreates
    /\ UNCHANGED <<now, numDeposits>>

Claim ==
    /\ \E a \in Submitted :
        LET out == process_claim(Ledger, now, a)
        IN /\ Commit(out)
           /\ last' = Outcome("Claim", out, a.signer, a.red_packet)
           /\ paid' = IF out.res = "Ok" THEN [paid EXCEPT ![a.red_packet] = @ + 1] ELSE paid
    /\ UNCHANGED <<now, closed, numCreates, numDeposits>>

Close ==
    /\ \E a \in Submitted :
        LET out == process_close(Ledger, now, a)
        IN /\ Commit(out)
           /\ last' = Outcome("Close", out, a.signer, a.red_packet)
           /\ closed' = IF out.res = "Ok" THEN closed \cup {a.red_packet} ELSE closed
    /\ UNCHANGED <<now, paid, numCreates, numDeposits>>

\* The clock sysvar advances.
Tick ==
    /\ now < MaxTime
    /\ now' = now + 1
    /\ last' = Environment
    /\ UNCHANGED <<lamports, owner, rpdata, token, treasury, paid, closed, numCreates, numDeposits>>

\* A third party credits a packet's vault: one token to a token vault, one
\* lamport to a native vault.
Deposit ==
    /\ numDeposits < MaxDeposits
    /\ \E w \in {ThirdParty}, v \in VaultAddrs :
        /\ owner[v] # SYSTEM_PROGRAM_ID
        /\ LET out == IF owner[v] = TOKEN_PROGRAM_ID
                      THEN Transfer(Ledger, TokenAddr(w), v, WalletAddr(w), TRUE, 1)
                      ELSE SystemTransfer(Ledger, WalletAddr(w), v, 1)
           IN /\ out.res = "Ok"
              /\ Commit(out)
              /\ last' = Environment
    /\ numDeposits' = numDeposits + 1
    /\ UNCHANGED <<now, paid, closed, numCreates>>

\* End of transaction: the runtime deletes every account left with no
\* lamports (its data is dropped and it returns to the system program).
Reap ==
    /\ \E x \in Addrs : lamports[x] = 0 /\ owner[x] # SYSTEM_PROGRAM_ID
    /\ owner' = [x \in Addrs |-> IF lamports[x] = 0 THEN SYSTEM_PROGRAM_ID ELSE owner[x]]
    /\ rpdata' = [x \in RPAddrs |-> IF lamports[x] = 0 THEN ZeroData(0) ELSE rpdata[x]]
    /\ token' = [x \in TokenAddrs |-> IF lamports[x] = 0 THEN NoToken ELSE token[x]]
    /\ last' = Environment
    /\ UNCHANGED <<lamports, treasury, now, paid, closed, numCreates, numDeposits>>

WithdrawFees ==
    /\ \E a \in WithdrawRequests :
        LET out == process_withdraw_fees(Ledger, a)
        IN /\ Commit(out)
           /\ last' = Outcome("WithdrawFees", out, a.admin, a.treasury)
    /\ UNCHANGED <<now, paid, closed, numCreates, numDeposits>>

\* A third party credits a treasury: one token to the fungible treasury's
\* vault, one lamport to the native treasury.
Donate ==
    /\ numDeposits < MaxDeposits
    /\ \E w \in {ThirdParty}, tt \in {TOKEN_TYPE_SPL, TOKEN_TYPE_SOL} :
        LET out == IF tt = TOKEN_TYPE_SPL
                   THEN Transfer(Ledger, TokenAddr(w), TreasuryVaultOf(USDC_MINT), WalletAddr(w), TRUE, 1)
                   ELSE SystemTransfer(Ledger, WalletAddr(w), TreasuryOf(NATIVE_SOL_MINT), 1)
        IN /\ out.res = "Ok"
           /\ Commit(out)
           /\ last' = Environment
    /\ numDeposits' = numDeposits + 1
    /\ UNCHANGED <<now, paid, closed, numCreates>>

InitTreasury ==
    /\ \E a \in InitRequests :
        LET out == process_init_treasury(Ledger, a)
        IN /\ Commit(out)
           /\ last' = Outcome("InitTreasury", out, a.payer, a.treasury)
    /\ UNCHANGED <<now, paid, closed, numCreates, numDeposits>>

Next == Create \/ Claim \/ Close \/ Tick \/ Deposit \/ Reap

Spec == Init /\ [][Next]_vars

\* The treasuries' life: deposits pay fees in, the administrator draws them out.
TreasuryNext == Create \/ WithdrawFees \/ Donate

TreasurySpec == Init /\ [][TreasuryNext]_vars

\* Claim and Close requests that name another account than the packet's own:
\* as vault, the account derived from the record's seeds with the other bump;
\* as record, a Treasury record.
Tampered ==
    {[WellFormed(w, r) EXCEPT !.vault = OtherVault(r)] : w \in Wallets, r \in RPAddrs}
    \cup {[WellFormed(w, r) EXCEPT !.data = <<1 - StoredType(r)>>] : w \in Wallets, r \in RPAddrs}
    \cup {WellFormed(ThirdParty, TreasuryOf(NATIVE_SOL_MINT))}

TamperedClaim ==
    /\ \E a \in Tampered :
        LET out == process_claim(Ledger, now, a)
        IN /\ Commit(out)
           /\ last' = Outcome("Claim", out, a.signer, a.red_packet)
           /\ paid' = IF out.res = "Ok" THEN [paid EXCEPT ![a.red_packet] = @ + 1] ELSE paid
    /\ UNCHANGED <<now, closed, numCreates, numDeposits>>

TamperedClose ==
    /\ \E a \in Tampered :
        LET out == process_close(Ledger, now, a)
        IN /\ Commit(out)
           /\ last' = Outcome("Close", out, a.signer, a.red_packet)
           /\ closed' = IF out.res = "Ok" THEN closed \cup {a.red_packet} ELSE closed
    /\ UNCHANGED <<now, paid, numCreates, numDeposits>>

\* The packets' life with clients that also send malformed Claim and Close
\* requests.
TamperNext == Create \/ Claim \/ Close \/ Tick \/ TamperedClaim \/ TamperedClose

TamperSpec == Init /\ [][TamperNext]_vars

\* Creates whose arithmetic does not fit the integer width: a total whose
\* fee product overflows, and Random payloads whose running sum overflows.
OverflowingCreates ==
    {WellFormedCreate(c, tt, (U64_MAX \div FEE_RATE_BPS) + 1, 1, SPLIT_EVEN, now + 1, 255, <<>>) :
        c \in Creators, tt \in {TOKEN_TYPE_SPL, TOKEN_TYPE_SOL}}
    \cup {WellFormedCreate(c, TOKEN_TYPE_SPL, total, 2, SPLIT_RANDOM, now + 1, 255, q) :
            c \in Creators, total \in {1, U64_MAX},
            q \in {<<U64_MAX, 1>>, <<(U64_MAX \div 2) + 1, (U64_MAX \div 2) + 1>>}}

OverflowingCreate ==
    /\ \E a \in OverflowingCreates :
        LET out == dispatch_create(Ledger, now, a)
        IN /\ Commit(out)
           /\ last' = Outcome("Create", out, a.creator, a.red_packet)
           /\ paid' = IF out.res = "Ok" THEN [paid EXCEPT ![a.red_packet] = 0] ELSE paid
           /\ closed' = IF out.res = "Ok" THEN closed \ {a.red_packet} ELSE closed
           /\ numCreates' = IF out.res = "Ok" THEN numCreates + 1 ELSE numCreates
    /\ UNCHANGED <<now, numDeposits>>

OverflowNext == Create \/ Claim \/ Close \/ Tick \/ WithdrawFees \/ OverflowingCreate

OverflowSpec == Init /\ [][OverflowNext]_vars

\* Any wallet tries to take a token out of a packet's token vault by calling
\* the token program itself, signing as the transfer's authority.
Siphon ==
    /\ \E w \in Wallets, v \in VaultAddrs :
        /\ owner[v] = TOKEN_PROGRAM_ID
        /\ LET out == Transfer(Ledger, v, TokenAddr(w), WalletAddr(w), TRUE, 1)
           IN /\ Commit(out)
              /\ last' = Outcome("Siphon", out, w, v)
    /\ UNCHANGED <<now, paid, closed, numCreates, numDeposits>>

\* The admin asks WithdrawFees to pay out of a packet's vault.
VaultWithdrawals ==
    {[WellFormedWithdraw(AdminWallet, TOKEN_TYPE_SPL, amount) EXCEPT !.treasury_vault = v] :
        amount \in 0..1, v \in VaultAddrs}

WithdrawFromVault ==
    /\ \E a \in VaultWithdrawals :
        LET out == process_withdraw_fees(Ledger, a)
        IN /\ Commit(out)
           /\ last' = Outcome("WithdrawFees", out, a.admin, a.treasury)
    /\ UNCHANGED <<now, paid, closed, numCreates, numDeposits>>

\* Everything any party can send that names a packet's vault.
VaultNext == TamperNext \/ WithdrawFromVault \/ Siphon

VaultSpec == Init /\ [][VaultNext]_vars

\* A third party sends lamports, the rent-exempt minimum of a data-less
\* account, to a treasury address where no account exists yet.
Prefund ==
    /\ numDeposits < MaxDeposits
    /\ \E w \in {ThirdParty}, t \in TreasuryAddrs :
        /\ lamports[t] = 0
        /\ LET out == SystemTransfer(Ledger, WalletAddr(w), t, rent_exempt(0))
           IN /\ out.res = "Ok"
              /\ Commit(out)
              /\ last' = Environment
    /\ numDeposits' = numDeposits + 1
    /\ UNCHANGED <<now, paid, closed, numCreates>>

\* From deployment on: treasuries are initialised by whoever asks.
DeployNext == InitTreasury \/ Prefund

DeploySpec == Undeployed /\ [][DeployNext]_vars

\* ===================================================================== claims
ValidityErrors == {"InvalidAccountOwner", "InvalidAccountData", "InvalidDiscriminator"}
Unexpired(r) == now < rpdata[r].expires_at
Full(r) == rpdata[r].num_claimed >= rpdata[r].num_recipients
HasPaid(r, w) == \E i \in 1..rpdata[r].num_claimed : rpdata[r].claimers[i] = w

\* C1: every live RedPacket record has remaining_amount equal to total_amount
\* minus the sum of the first num_claimed slot amounts, remaining_amount at
\* most total_amount, and num_claimed at most num_recipients.
C1_Accounting ==
    \A r \in RPAddrs : LiveRecord(r) =>
        /\ rpdata[r].remaining_amount = rpdata[r].total_amount - SumTo(rpdata[r].amounts, rpdata[r].num_claimed)
        /\ rpdata[r].remaining_amount <= rpdata[r].total_amount
        /\ rpdata[r].num_claimed <= rpdata[r].num_recipients

C1_Witness ==
    /\ last.op = "Claim" /\ last.res = "Ok"
    /\ LiveRecord(last.rp)
    /\ rpdata[last.rp].num_claimed = 2
    /\ rpdata[last.rp].remaining_amount < rpdata[last.rp].total_amount

\* C2: in every live record the first num_claimed entries of claimers are
\* pairwise different.
C2_DistinctClaimers ==
    \A r \in RPAddrs : LiveRecord(r) =>
        \A i, j \in 1..rpdata[r].num_claimed :
            i # j => rpdata[r].claimers[i] # rpdata[r].claimers[j]

C2_Witness ==
    /\ last.op = "Claim" /\ last.res = "Ok"
    /\ LiveRecord(last.rp)
    /\ rpdata[last.rp].num_claimed = 2
    /\ rpdata[last.rp].claimers[1] # rpdata[last.rp].claimers[2]

\* C3 as stated: a Claim by an identity that already claimed from a live,
\* unexpired record fails with AlreadyClaimed.
C3_AlwaysAlreadyClaimed ==
    \A r \in RPAddrs, w \in Wallets :
        (LiveRecord(r) /\ Unexpired(r) /\ HasPaid(r, w)) =>
            process_claim(Ledger, now, WellFormed(w, r)).res = "AlreadyClaimed"

\* C3 amended: a Claim by an identity that already claimed from a live,
\* unexpired record fails and changes nothing: with AlreadyClaimed while a slot
\* is still free, with RedPacketFull once every slot is taken.
C3_RepeatRejected ==
    \A r \in RPAddrs, w \in Wallets :
        (LiveRecord(r) /\ Unexpired(r) /\ HasPaid(r, w)) =>
            LET out == process_claim(Ledger, now, WellFormed(w, r)) IN
            /\ out.res = IF Full(r) THEN "RedPacketFull" ELSE "AlreadyClaimed"
            /\ out.L = Ledger

C3_Witness ==
    /\ last.op = "Claim" /\ last.res = "AlreadyClaimed"
    /\ \E r \in RPAddrs : LiveRecord(r) /\ Unexpired(r) /\ ~Full(r) /\ rpdata[r].num_claimed = 1

\* C4: the number of successful claims on a record never exceeds its
\* num_recipients, and a Claim on a full, unexpired record fails with
\* RedPacketFull and changes nothing, whoever the claimer is.
C4_NoOverclaim ==
    \A r \in RPAddrs : LiveRecord(r) =>
        /\ paid[r] <= rpdata[r].num_recipients
        /\ (Full(r) /\ Unexpired(r)) =>
              \A w \in Wallets :
                  LET out == process_claim(Ledger, now, WellFormed(w, r)) IN
                  out.res = "RedPacketFull" /\ out.L = Ledger

C4_Witness ==
    /\ last.op = "Claim" /\ last.res = "RedPacketFull"
    /\ \E r \in RPAddrs : LiveRecord(r) /\ Unexpired(r) /\ paid[r] = 2 /\ rpdata[r].num_recipients = 2

\* C5: on a live record with now >= expires_at no Claim succeeds or changes
\* anything, and a Claim that passes the checks before the expiry check fails
\* with Expired.
C5_ExpiredRejected ==
    \A r \in RPAddrs, w \in Wallets :
        (LiveRecord(r) /\ now >= rpdata[r].expires_at) =>
            /\ \A a \in Requests(w, r) :
                  LET out == process_claim(Ledger, now, a) IN
                  out.res # "Ok" /\ out.L = Ledger
            /\ process_claim(Ledger, now, WellFormed(w, r)).res = "Expired"
            /\ process_claim(Ledger, now, [WellFormed(w, r) EXCEPT !.dest = StoredVault(r)]).res = "Expired"

C5_Witness ==
    /\ last.op = "Claim" /\ last.res = "Expired"
    /\ \E r \in RPAddrs : LiveRecord(r) /\ now = rpdata[r].expires_at /\ rpdata[r].num_claimed = 1

\* C6: the creator's Close of a live record fails with NotExpiredOrFull
\* exactly when num_claimed < num_recipients and now < expires_at, and then
\* changes nothing.
C6_CloseGate ==
    \A r \in RPAddrs : LiveRecord(r) =>
        LET out == process_close(Ledger, now, WellFormed(rpdata[r].creator, r)) IN
        /\ (out.res = "NotExpiredOrFull") <=> (~Full(r) /\ Unexpired(r))
        /\ out.res = "NotExpiredOrFull" => out.L = Ledger

C6_Witness ==
    /\ last.op = "Close" /\ last.res = "NotExpiredOrFull"
    /\ \E r \in RPAddrs : LiveRecord(r) /\ Unexpired(r) /\ rpdata[r].num_claimed = 1 /\ ~Full(r)

\* C7: a successful Close leaves the vault without lamports or tokens, the
\* record without lamports and with every byte zero, and has paid the creator
\* the vault's lamports and the record's lamports and, for a token vault, its
\* whole token balance; what the vault held was at least remaining_amount.
C7_CloseDrains ==
    [][(last'.op = "Close" /\ last'.res = "Ok") =>
        LET r == last'.rp
            v == StoredVault(r)
            c == WalletAddr(last'.who)
            t == TokenAddr(last'.who)
        IN /\ lamports'[v] = 0
           /\ token'[v].amount = 0
           /\ lamports'[r] = 0
           /\ rpdata'[r] = ZeroData(rpdata[r].len)
           /\ lamports'[c] = lamports[c] + lamports[v] + lamports[r]
           /\ lamports[r] = rent_exempt(rpdata[r].len)
           /\ IF rpdata[r].token_type = TOKEN_TYPE_SOL
              THEN lamports[v] >= rpdata[r].remaining_amount
              ELSE /\ token'[t].amount = token[t].amount + token[v].amount
                   /\ token[v].amount >= rpdata[r].remaining_amount]_vars

C7_Witness ==
    /\ last.op = "Close" /\ last.res = "Ok"
    /\ rpdata[last.rp] = ZeroData(rpdata[last.rp].len)
    /\ rpdata[last.rp].len > 0
    /\ lamports[last.rp] = 0
    /\ paid[last.rp] = 1
    /\ now = MaxTime

\* C8: on a live record, expired or full or neither, a Close signed by an
\* identity other than the stored creator fails with Unauthorized, a Close
\* without the named identity's signature fails with MissingRequiredSignature,
\* and no such Close succeeds or changes anything.
C8_OnlyCreatorCloses ==
    \A r \in RPAddrs, w \in Wallets : LiveRecord(r) =>
        /\ w # rpdata[r].creator =>
              /\ process_close(Ledger, now, WellFormed(w, r)).res = "Unauthorized"
              /\ \A a \in Requests(w, r) :
                    LET out == process_close(Ledger, now, a) IN
                    out.res # "Ok" /\ out.L = Ledger
        /\ LET out == process_close(Ledger, now, [WellFormed(w, r) EXCEPT !.signed = FALSE]) IN
           out.res = "MissingRequiredSignature" /\ out.L = Ledger

C8_Witness ==
    /\ last.op = "Close" /\ last.res = "Unauthorized"
    /\ \E r \in RPAddrs : LiveRecord(r) /\ Full(r) /\ now >= rpdata[r].expires_at

\* C9: whenever a live record is expired or fully claimed, the Close its
\* creator submits with the record's own vault succeeds.
C9_CreatorCanClose ==
    \A r \in RPAddrs :
        (LiveRecord(r) /\ (Full(r) \/ now >= rpdata[r].expires_at)) =>
            process_close(Ledger, now, WellFormed(rpdata[r].creator, r)).res = "Ok"

\* C10: a record on which Close has succeeded (and whose address no later
\* Create has initialised again) is not live, every Claim and Close that
\* references it fails, the well-formed ones at the validity check, and none
\* changes anything.
C10_ClosedIsTerminal ==
    \A r \in closed :
        /\ ~LiveRecord(r)
        /\ \A w \in Wallets :
              /\ process_claim(Ledger, now, WellFormed(w, r)).res \in ValidityErrors
              /\ process_close(Ledger, now, WellFormed(w, r)).res \in ValidityErrors
              /\ \A a \in Requests(w, r) :
                    LET claimed == process_claim(Ledger, now, a)
                        shut == process_close(Ledger, now, a)
                    IN /\ claimed.res # "Ok"
                       /\ claimed.L = Ledger
                       /\ shut.res # "Ok"
                       /\ shut.L = Ledger

C10_Witness ==
    /\ last.op = "Claim" /\ last.res = "InvalidDiscriminator"
    /\ closed # {}
    /\ \E r \in closed : lamports[r] = 0 /\ owner[r] = ID /\ rpdata[r].len > 0

\* C11: every Create that succeeds leaves a record holding the signer as
\* creator, the request's nonce, total_amount, num_recipients, split_mode, both
\* bumps and expires_at, with remaining_amount = total_amount and
\* num_claimed = 0, and has raised the packet vault's balance by exactly
\* total_amount (a native vault starts at its rent floor).
C11_CreateStoresRequest ==
    \A a \in CreateRequests :
        LET out == dispatch_create(Ledger, now, a)
            d == out.L.rpdata[a.red_packet]
        IN out.res = "Ok" =>
            /\ d.disc = REDPACKET_DISCRIMINATOR
            /\ d.creator = a.creator /\ a.signed
            /\ d.id = a.id
            /\ d.total_amount = a.total_amount
            /\ d.num_recipients = a.num_recipients
            /\ d.split_mode = a.split_mode
            /\ d.bump = a.rp_bump
            /\ d.vault_bump = a.vault_bump
            /\ d.expires_at = a.expires_at
            /\ d.remaining_amount = a.total_amount
            /\ d.num_claimed = 0
            /\ IF a.token_type = TOKEN_TYPE_SOL
               THEN out.L.lamports[a.vault] = lamports[a.vault] + rent_exempt(0) + a.total_amount
               ELSE out.L.token[a.vault].amount = token[a.vault].amount + a.total_amount

C11_Witness ==
    /\ last.op = "Create" /\ last.res = "Ok"
    /\ LiveRecord(last.rp)
    /\ rpdata[last.rp].num_recipients = 2
    /\ rpdata[last.rp].remaining_amount = 2
    /\ rpdata[last.rp].num_claimed = 0
    /\ token[StoredVault(last.rp)].amount = 2
    /\ rpdata[last.rp].expires_at = ExpiresAt

\* C12: every Create step that succeeds raises the balance of the treasury
\* vault of the packet's asset kind (the native treasury's own balance for a
\* native packet) by exactly the fee on the stored total_amount.
C12_FeeReachesTreasury ==
    [][(last'.op = "Create" /\ last'.res = "Ok") =>
        LET d == rpdata'[last'.rp]
            fee == compute_fee(d.total_amount)
        IN IF d.token_type = TOKEN_TYPE_SOL
           THEN lamports'[TreasuryOf(NATIVE_SOL_MINT)] = lamports[TreasuryOf(NATIVE_SOL_MINT)] + fee
           ELSE token'[TreasuryVaultOf(USDC_MINT)].amount = token[TreasuryVaultOf(USDC_MINT)].amount + fee]_vars

\* C13: an Even-mode request with total_amount > 0 and n in 1..20 is split
\* into total_amount / n for slots 0..n-2 and total_amount / n +
\* total_amount % n for the last slot, which sum to total_amount; 1,000,000
\* over 3 gives 333333, 333333, 333334.
EvenTotals == {1, 5, 19, 20, 21, 1000000}
EvenRequest(total, n) ==
    [total_amount |-> total, num_recipients |-> n, split_mode |-> SPLIT_EVEN, amounts |-> <<>>]

C13_EvenExamples ==
    /\ compute_amounts(EvenRequest(1000000, 3)).amounts = <<333333, 333333, 333334>>
    /\ \A total \in EvenTotals, n \in 1..MAX_RECIPIENTS :
          LET split == compute_amounts(EvenRequest(total, n)) IN
          /\ split.res = "Ok"
          /\ Len(split.amounts) = n
          /\ \A i \in 1..(n - 1) : split.amounts[i] = total \div n
          /\ split.amounts[n] = (total \div n) + (total % n)
          /\ SumTo(split.amounts, n) = total

\* Every live Even-mode record stores exactly that split.
C13_EvenSplit ==
    /\ C13_EvenExamples
    /\ \A r \in RPAddrs : (LiveRecord(r) /\ rpdata[r].split_mode = SPLIT_EVEN) =>
          LET d == rpdata[r]
              n == d.num_recipients
          IN /\ Len(d.amounts) = n
             /\ \A i \in 1..(n - 1) : d.amounts[i] = d.total_amount \div n
             /\ d.amounts[n] = (d.total_amount \div n) + (d.total_amount % n)
             /\ SumTo(d.amounts, n) = d.total_amount

C13_Witness ==
    /\ last.op = "Create" /\ last.res = "Ok"
    /\ LiveRecord(last.rp)
    /\ rpdata[last.rp].split_mode = SPLIT_EVEN
    /\ rpdata[last.rp].num_recipients = 2
    /\ rpdata[last.rp].total_amount = 1
    /\ rpdata[last.rp].amounts = <<0, 1>>

\* C14: a Random-mode Create that reaches the payload check fails with
\* InvalidAmount when one of its n slot amounts is zero, with AmountMismatch
\* when none is zero and they do not sum to total_amount, both without
\* changing anything; it succeeds only with n nonzero amounts that sum to
\* total_amount.
RandomRequests ==
    UNION {{WellFormedCreate(c, TOKEN_TYPE_SPL, total, n, SPLIT_RANDOM, ExpiresAt, 254, q) :
                q \in Payloads(total, n)} :
           c \in Creators, total \in 1..MaxTotal, n \in 1..MaxN}

\* The payloads tried against an address that has been used: one with a zero
\* slot, one with a wrong sum, one that is exact.
RandomProbes ==
    {WellFormedCreate(c, TOKEN_TYPE_SPL, 2, 2, SPLIT_RANDOM, ExpiresAt, 254, q) :
        c \in Creators, q \in {<<0, 2>>, <<1, 2>>, <<1, 1>>}}

C14_RandomPayload ==
    now < ExpiresAt =>
        \A a \in (IF numCreates = 0 THEN RandomRequests ELSE RandomProbes) :
            LET out == dispatch_create(Ledger, now, a)
                n == a.num_recipients
            IN /\ (\E i \in 1..n : a.amounts[i] = 0) =>
                     (out.res = "InvalidAmount" /\ out.L = Ledger)
               /\ ((\A i \in 1..n : a.amounts[i] # 0) /\ SumTo(a.amounts, n) # a.total_amount) =>
                     (out.res = "AmountMismatch" /\ out.L = Ledger)
               /\ out.res = "Ok" =>
                     /\ \A i \in 1..n : a.amounts[i] # 0
                     /\ SumTo(a.amounts, n) = a.total_amount
                     /\ out.L.rpdata[a.red_packet].amounts = a.amounts

C14_Witness ==
    /\ last.op = "Create" /\ last.res = "AmountMismatch"
    /\ now < ExpiresAt
    /\ \A r \in RPAddrs : ~LiveRecord(r) /\ lamports[r] = 0
    /\ \A v \in VaultAddrs : lamports[v] = 0

\* C15: for every total_amount Create accepts, the fee is
\* max(1, total_amount * 10 / 10000) with integer division, never zero
\* (total = 5 gives 1); the front end previews the same fee, and a Create that
\* succeeds with the treasury's own vault credits it with exactly that fee.
FeeTotals == {1, 5, 999, 1000, 1999, 2000, 2001, 19999, 20000, 1000000, U64_MAX \div 10}
ExpectedFee(total) == IF (total * 10) \div 10000 >= 1 THEN (total * 10) \div 10000 ELSE 1

C15_FeeExamples ==
    /\ compute_fee(5) = 1
    /\ \A total \in FeeTotals \cup (1..MaxTotal) \cup {FeeTotal} :
          /\ compute_fee(total) = ExpectedFee(total)
          /\ compute_fee(total) >= 1
          /\ blinks_compute_fee(total) = compute_fee(total)

C15_Fee ==
    /\ C15_FeeExamples
    /\ \A a \in CreateRequests :
          LET out == dispatch_create(Ledger, now, a) IN
          (out.res = "Ok" /\ a.treasury_vault = TreasuryVaultOf(USDC_MINT)) =>
              IF a.token_type = TOKEN_TYPE_SOL
              THEN /\ out.L.lamports[a.treasury] = lamports[a.treasury] + ExpectedFee(a.total_amount)
                   /\ out.L.treasury[a.treasury].sol_fees = treasury[a.treasury].sol_fees + ExpectedFee(a.total_amount)
              ELSE /\ out.L.token[a.treasury_vault].amount =
                          token[a.treasury_vault].amount + ExpectedFee(a.total_amount)
                   /\ out.L.token[a.creator_token_account].amount =
                          token[a.creator_token_account].amount - a.total_amount - ExpectedFee(a.total_amount)

C15_Witness ==
    /\ last.op = "Create" /\ last.res = "Ok"
    /\ LiveRecord(last.rp)
    /\ rpdata[last.rp].total_amount = FeeTotal
    /\ rpdata[last.rp].token_type = TOKEN_TYPE_SPL
    /\ token[TreasuryVaultOf(USDC_MINT)].amount = 2

\* C16: a Create that reaches the input checks fails with InvalidAmount when
\* total_amount = 0, InvalidRecipientCount when num_recipients is 0 or above
\* 20, InvalidSplitMode when split_mode is neither Even nor Random, and Expired
\* when expires_at <= now, each without changing anything; a Create that
\* succeeds has total_amount > 0, 1 <= num_recipients <= 20, a known split_mode
\* and expires_at > now.
InputProbes ==
    {WellFormedCreate(c, tt, 1, 1, SPLIT_EVEN, now + 1, 255, <<>>) :
        c \in Creators, tt \in {TOKEN_TYPE_SPL, TOKEN_TYPE_SOL}}

Rejected(a, e) ==
    LET out == dispatch_create(Ledger, now, a) IN out.res = e /\ out.L = Ledger

C16_CreateInputs ==
    /\ \A wf \in InputProbes :
          /\ Rejected([wf EXCEPT !.total_amount = 0], "InvalidAmount")
          /\ Rejected([wf EXCEPT !.num_recipients = 0], "InvalidRecipientCount")
          /\ Rejected([wf EXCEPT !.num_recipients = MAX_RECIPIENTS + 1], "InvalidRecipientCount")
          /\ Rejected([wf EXCEPT !.split_mode = 2], "InvalidSplitMode")
          /\ Rejected([wf EXCEPT !.expires_at = now], "Expired")
          /\ Rejected([wf EXCEPT !.expires_at = now - 1], "Expired")
    /\ \A a \in CreateRequests \cup InputProbes :
          dispatch_create(Ledger, now, a).res = "Ok" =>
              /\ a.total_amount > 0
              /\ a.num_recipients >= 1 /\ a.num_recipients <= MAX_RECIPIENTS
              /\ a.split_mode \in {SPLIT_EVEN, SPLIT_RANDOM}
              /\ a.expires_at > now

C16_Witness ==
    /\ last.op = "Create" /\ last.res = "Expired"
    /\ now = 0
    /\ \A r \in RPAddrs : ~LiveRecord(r) /\ lamports[r] = 0

\* C17: a WithdrawFees signed by an identity other than ADMIN fails with
\* UnauthorizedAdmin, one that names ADMIN without its signature fails with
\* MissingRequiredSignature, and no such request, whatever its asset kind,
\* amount or accounts, succeeds or changes anything.
C17_OnlyAdminWithdraws ==
    \A tt \in {TOKEN_TYPE_SPL, TOKEN_TYPE_SOL}, amount \in 0..MaxWithdraw :
        /\ \A w \in Wallets \ {AdminWallet} :
              /\ process_withdraw_fees(Ledger, WellFormedWithdraw(w, tt, amount)) =
                     Err("UnauthorizedAdmin", Ledger)
              /\ process_withdraw_fees(Ledger,
                     [WellFormedWithdraw(w, tt, amount) EXCEPT !.admin_token_account = TokenAddr(AdminWallet)]) =
                     Err("UnauthorizedAdmin", Ledger)
              /\ \A a \in WithdrawDeviations(WellFormedWithdraw(w, tt, amount)) :
                    LET out == process_withdraw_fees(Ledger, a) IN
                    out.res # "Ok" /\ out.L = Ledger
        /\ process_withdraw_fees(Ledger, [WellFormedWithdraw(AdminWallet, tt, amount) EXCEPT !.signed = FALSE]) =
               Err("MissingRequiredSignature", Ledger)

C17_Witness ==
    /\ last.op = "WithdrawFees" /\ last.res = "UnauthorizedAdmin"
    /\ token[TreasuryVaultOf(USDC_MINT)].amount > 0
    /\ treasury[TreasuryOf(NATIVE_SOL_MINT)].sol_fees = 0

\* What each treasury can pay out: the counted fees or the lamports above the
\* rent floor, whichever is less, for the native one; the vault's tokens for
\* the fungible one.
Available(tt) ==
    IF tt = TOKEN_TYPE_SOL
    THEN LET t == TreasuryOf(NATIVE_SOL_MINT)
             above == lamports[t] - rent_exempt(TREASURY_SIZE)
         IN IF treasury[t].sol_fees <= above THEN treasury[t].sol_fees ELSE above
    ELSE token[TreasuryVaultOf(USDC_MINT)].amount

\* The administrator's request pays exactly x: the native treasury's balance
\* and counter fall by x and the administrator's balance rises by x; the
\* fungible treasury's vault falls by x and the administrator's token account
\* rises by x.
Pays(out, tt, x) ==
    /\ out.res = "Ok"
    /\ IF tt = TOKEN_TYPE_SOL
       THEN LET t == TreasuryOf(NATIVE_SOL_MINT) IN
            /\ out.L.lamports[t] = lamports[t] - x
            /\ out.L.treasury[t].sol_fees = treasury[t].sol_fees - x
            /\ out.L.lamports[ADMIN] = lamports[ADMIN] + x
            /\ out.L.token = token
       ELSE /\ out.L.token[TreasuryVaultOf(USDC_MINT)].amount = token[TreasuryVaultOf(USDC_MINT)].amount - x
            /\ out.L.token[TokenAddr(AdminWallet)].amount = token[TokenAddr(AdminWallet)].amount + x
            /\ out.L.lamports = lamports
            /\ out.L.treasury = treasury

\* C18 as stated: in every treasury state, one with nothing available
\* included, the administrator's WithdrawFees with amount 0 succeeds and pays
\* exactly what is available.
C18_WithdrawAllSucceeds ==
    \A tt \in {TOKEN_TYPE_SPL, TOKEN_TYPE_SOL} :
        Pays(process_withdraw_fees(Ledger, WellFormedWithdraw(AdminWallet, tt, 0)), tt, Available(tt))

\* C18 amended: the administrator's WithdrawFees with amount 0 pays exactly
\* what is available when that is more than zero, and fails with
\* InsufficientTreasuryBalance, changing nothing, when nothing is available.
C18_WithdrawAll ==
    \A tt \in {TOKEN_TYPE_SPL, TOKEN_TYPE_SOL} :
        LET out == process_withdraw_fees(Ledger, WellFormedWithdraw(AdminWallet, tt, 0)) IN
        IF Available(tt) = 0
        THEN out = Err("InsufficientTreasuryBalance", Ledger)
        ELSE Pays(out, tt, Available(tt))

C18_Witness ==
    /\ last.op = "WithdrawFees" /\ last.res = "Ok"
    /\ last.rp = TreasuryOf(NATIVE_SOL_MINT)
    /\ treasury[TreasuryOf(NATIVE_SOL_MINT)].sol_fees = 0
    /\ lamports[TreasuryOf(NATIVE_SOL_MINT)] = rent_exempt(TREASURY_SIZE) + 1
    /\ lamports[ADMIN] = InitLamports + 2

\* C19: the native treasury's balance is never below its rent floor, and every
\* successful native WithdrawFees lowers the treasury's balance and its fee
\* counter by exactly the amount the administrator receives, leaving the
\* balance at or above the floor.
C19_RentFloor ==
    LET t == TreasuryOf(NATIVE_SOL_MINT) IN
    /\ lamports[t] >= rent_exempt(TREASURY_SIZE)
    /\ \A amount \in 0..MaxWithdraw :
          \A a \in WithdrawDeviations(WellFormedWithdraw(AdminWallet, TOKEN_TYPE_SOL, amount)) :
              LET out == process_withdraw_fees(Ledger, a)
                  x == out.L.lamports[ADMIN] - lamports[ADMIN]
              IN (out.res = "Ok" /\ a.token_type = TOKEN_TYPE_SOL) =>
                    /\ x > 0
                    /\ x = IF amount = 0 THEN Available(TOKEN_TYPE_SOL) ELSE amount
                    /\ out.L.lamports[t] = lamports[t] - x
                    /\ out.L.treasury[t].sol_fees = treasury[t].sol_fees - x
                    /\ out.L.lamports[t] >= rent_exempt(TREASURY_SIZE)
                    /\ out.L.treasury[t].sol_fees >= 0

C19_Witness ==
    /\ last.op = "WithdrawFees" /\ last.res = "Ok"
    /\ last.rp = TreasuryOf(NATIVE_SOL_MINT)
    /\ lamports[TreasuryOf(NATIVE_SOL_MINT)] = rent_exempt(TREASURY_SIZE) + 1
    /\ treasury[TreasuryOf(NATIVE_SOL_MINT)].sol_fees = 1
    /\ lamports[ADMIN] = InitLamports + 1

\* C20: the administrator's WithdrawFees with a nonzero amount above what is
\* available fails with InsufficientTreasuryBalance and leaves the treasury's
\* balance, its counter and the administrator's balance as they were; with a
\* nonzero amount within what is available it pays exactly that amount.
C20_RequestedAmount ==
    \A tt \in {TOKEN_TYPE_SPL, TOKEN_TYPE_SOL}, amount \in 1..MaxWithdraw :
        LET out == process_withdraw_fees(Ledger, WellFormedWithdraw(AdminWallet, tt, amount)) IN
        IF amount > Available(tt)
        THEN out = Err("InsufficientTreasuryBalance", Ledger)
        ELSE Pays(out, tt, amount)

C20_Witness ==
    /\ last.op = "WithdrawFees" /\ last.res = "InsufficientTreasuryBalance"
    /\ token[TreasuryVaultOf(USDC_MINT)].amount = 1
    /\ token[TokenAddr(AdminWallet)].amount = InitTokens
    /\ Available(TOKEN_TYPE_SOL) = MaxWithdraw

\* The Treasury records that exist for a mint.
TreasuriesOf(mint) ==
    {t \in TreasuryAddrs : validate_treasury(Ledger, t) = "Ok" /\ treasury[t].mint = mint}

KindMint(tt) == IF tt = TOKEN_TYPE_SOL THEN NATIVE_SOL_MINT ELSE USDC_MINT

\* C21 as stated: once a Treasury record exists for an asset kind, every
\* InitTreasury for that kind, with any payer and any bump bytes, fails with
\* TreasuryAlreadyInitialized and changes nothing, and no asset kind ever has
\* more than one Treasury record.
C21_InitOnce ==
    \A tt \in {TOKEN_TYPE_SPL, TOKEN_TYPE_SOL} :
        /\ Cardinality(TreasuriesOf(KindMint(tt))) <= 1
        /\ TreasuriesOf(KindMint(tt)) # {} =>
              \A w \in Wallets, tb \in Bumps, vb \in Bumps :
                  process_init_treasury(Ledger, WellFormedInit(w, tt, tb, vb))
                      = Err("TreasuryAlreadyInitialized", Ledger)

\* InitTreasury and WithdrawFees requests tried in every state: one that fails
\* at an early check, one that fails after the treasury account has been
\* created and written (its vault does not derive), and the well-formed ones.
LateFailingInit == [WellFormedInit(ThirdParty, TOKEN_TYPE_SPL, 254, 254) EXCEPT !.treasury_vault = TokenAddr(ThirdParty)]

AtomicityProbes ==
    {LateFailingInit,
     WellFormedInit(ThirdParty, TOKEN_TYPE_SPL, 255, 255),
     WellFormedInit(ThirdParty, TOKEN_TYPE_SOL, 255, 255),
     [WellFormedInit(ThirdParty, TOKEN_TYPE_SOL, 254, 255) EXCEPT !.signed = FALSE]}

FailedUnchanged(out) == out.res # "Ok" => out.L = Ledger

WrongVaults(r, w) ==
    {OtherVault(r), TreasuryVaultOf(USDC_MINT), TokenAddr(w), WalletAddr(w), r}

\* C23: for every live record, a Claim by anyone and a Close by the creator
\* that name as vault another account than the one derived from the record's
\* stored creator, id and vault_bump fail with InvalidPDA, and no Claim or
\* Close naming another vault succeeds or changes any balance or record.
C23_OnlyOwnVault ==
    \A r \in RPAddrs : LiveRecord(r) =>
        \A w \in Wallets : \A v \in WrongVaults(r, w) :
            LET a == [WellFormed(w, r) EXCEPT !.vault = v] IN
            /\ process_claim(Ledger, now, a) = Err("InvalidPDA", Ledger)
            /\ process_close(Ledger, now, a) =
                  Err(IF rpdata[r].creator = w THEN "InvalidPDA" ELSE "Unauthorized", Ledger)
            /\ \A b \in {[a EXCEPT !.signed = FALSE], [a EXCEPT !.dest = StoredVault(r)]} :
                  /\ FailedUnchanged(process_claim(Ledger, now, b))
                  /\ process_claim(Ledger, now, b).res # "Ok"
                  /\ process_close(Ledger, now, b).res # "Ok"

\* A Claim naming the other vault address was rejected while the packet's own
\* vault held its deposit.
C23_Witness ==
    /\ last.op = "Claim" /\ last.res = "InvalidPDA"
    /\ \E r \in RPAddrs :
          /\ LiveRecord(r) /\ ~Full(r) /\ Unexpired(r)
          /\ rpdata[r].token_type = TOKEN_TYPE_SPL
          /\ token[StoredVault(r)].amount = rpdata[r].remaining_amount
          /\ rpdata[r].remaining_amount > 0

\* Accounts a caller may pass as the RedPacket record that are not one.
NotARecord(w) ==
    {WalletAddr(w), TokenAddr(w), TreasuryOf(NATIVE_SOL_MINT), TreasuryOf(USDC_MINT)}
    \cup {r \in RPAddrs : ~LiveRecord(r)}

\* The address the stored fields of the account at x derive; an account that
\* holds no record of the program stores none.
DerivedFromStored(x) ==
    IF x \in RPAddrs /\ LiveRecord(x)
    THEN create_program_address("redpacket", rpdata[x].creator, rpdata[x].id, rpdata[x].bump)
    ELSE IF x \in TreasuryAddrs /\ validate_treasury(Ledger, x) = "Ok"
    THEN create_program_address("treasury", treasury[x].mint, 0, treasury[x].bump)
    ELSE NoAddress

ExpectedRecordError(x) ==
    IF owner[x] # ID THEN "InvalidAccountOwner"
    ELSE IF x \in TreasuryAddrs THEN "InvalidAccountData"
    ELSE "InvalidDiscriminator"

CodecFields(r) ==
    [creator |-> r.creator, id |-> r.id, total_amount |-> r.total_amount,
     remaining_amount |-> r.remaining_amount, num_recipients |-> r.num_recipients,
     num_claimed |-> r.num_claimed, split_mode |-> r.split_mode, bump |-> r.bump,
     vault_bump |-> r.vault_bump, expires_at |-> r.expires_at,
     amounts |-> r.amounts, claimers |-> r.claimers]

SameFields(d, r) ==
    /\ "error" \notin DOMAIN d
    /\ \A f \in DOMAIN CodecFields(r) : d[f] = CodecFields(r)[f]

\* C25: for every live RedPacket record, decoding the bytes the program has
\* written returns every field unchanged (creator, id, total_amount,
\* remaining_amount, num_recipients, num_claimed, split_mode, bump,
\* vault_bump, expires_at, amounts, claimers).
C25_RoundTrip ==
    \A x \in RPAddrs : LiveRecord(x) =>
        SameFields(decode_red_packet(encode_redpacket(rpdata[x])), rpdata[x])

\* The byte ranges the readers and writers of a record of n recipients use.
FieldRanges(n) ==
    {<<AMOUNTS_OFFSET + 8 * i, 8>> : i \in 0..(n - 1)}
        \cup {<<claimers_offset(n) + 32 * i, 32>> : i \in 0..(n - 1)}
        \cup {<<EXPIRES_AT_OFFSET, 8>>, <<VAULT_BUMP_OFFSET, 1>>, <<DISCRIMINATOR_OFFSET, 1>>}

Inside(range, len) == range[1] >= 0 /\ range[1] + range[2] <= len

\* C26: for every recipient count N in 1..20 the storage Create allocates
\* for the record is exactly 70 + 40*N bytes, every record Create has made
\* has that length, and every offset the readers and writers use (amounts
\* at 70 + 8*i, claimers at 70 + 8*N + 32*i) lies inside it.
C26_StorageSize ==
    /\ \A n \in 1..MAX_RECIPIENTS :
          /\ redpacket_size(n) = 70 + 40 * n
          /\ \A range \in FieldRanges(n) : Inside(range, redpacket_size(n))
    /\ \A x \in RPAddrs : LiveRecord(x) =>
          rpdata[x].len = 70 + 40 * rpdata[x].num_recipients

\* C27: for every total_amount >= 1, every recipient count n and every
\* choice of sorted cut points, the amounts the front-end random split
\* generator produces sum exactly to total_amount, so that no Create built
\* from them is refused with AmountMismatch.
\* The Random-mode Create the front end builds for creator c from the
\* generated amounts.
FrontEndRandomCreate(c, total_amount, n, floors) ==
    WellFormedCreate(c, TOKEN_TYPE_SPL, total_amount, n, SPLIT_RANDOM, now + 1, 255,
                     generate_random_split(total_amount, n, floors))

C27_SplitSumsToTotal ==
    \A total_amount \in 1..MaxSplitTotal : \A n \in 1..MaxSplitN :
        \A floors \in SortedCuts(total_amount, n) :
            /\ SumTo(generate_random_split(total_amount, n, floors), n) = total_amount
            /\ \A c \in Creators :
                  dispatch_create(Ledger, now, FrontEndRandomCreate(c, total_amount, n, floors)).res
                      # "AmountMismatch"

\* What a step that ends a successful Claim has done, with k the number of
\* successful Claims on the record since it was created, this one included.
KthClaimStep ==
    LET r == last'.rp
        w == last'.who
        k == paid'[r]
        vault == StoredVault(r)
    IN
    /\ paid[r] = k - 1
    /\ k \in 1..rpdata[r].num_recipients
    /\ rpdata[r].num_claimed = k - 1
    /\ rpdata'[r].num_claimed = k
    /\ rpdata'[r].claimers[k] = w
    /\ LET amount == rpdata[r].amounts[k] IN
       IF rpdata[r].token_type = TOKEN_TYPE_SOL
       THEN /\ lamports'[WalletAddr(w)] = lamports[WalletAddr(w)] + amount
            /\ lamports'[vault] = lamports[vault] - amount
       ELSE /\ token'[TokenAddr(w)].amount = token[TokenAddr(w)].amount + amount
            /\ token'[vault].amount = token[vault].amount - amount

FirstClaimError(w, r) ==
    IF ~Unexpired(r) THEN "Expired"
    ELSE IF Full(r) THEN "RedPacketFull"
    ELSE IF HasPaid(r, w) THEN "AlreadyClaimed"
    ELSE "None"

\* C29: Claim evaluates record validity, then the vault address, then
\* expiry, fullness and the duplicate check, and reports the first that
\* fails: an account that is no record is refused as such even with a wrong
\* vault; a wrong vault gives InvalidPDA whether or not the record is
\* expired, full or already claimed by the signer; with the right vault
\* Expired takes precedence over RedPacketFull and RedPacketFull over
\* AlreadyClaimed.
C29_ClaimCheckOrder ==
    /\ \A w \in Wallets : \A x \in NotARecord(w) :
          process_claim(Ledger, now, [WellFormed(w, x) EXCEPT !.vault = OtherVault(x)]).res
              = ExpectedRecordError(x)
    /\ \A w \in Wallets : \A r \in RPAddrs : LiveRecord(r) =>
          LET wf == WellFormed(w, r)
              res == process_claim(Ledger, now, wf).res
          IN
          /\ process_claim(Ledger, now, [wf EXCEPT !.vault = OtherVault(r)]).res = "InvalidPDA"
          /\ IF FirstClaimError(w, r) # "None"
             THEN res = FirstClaimError(w, r)
             ELSE res \notin {"InvalidPDA", "Expired", "RedPacketFull", "AlreadyClaimed"}

\* A Claim by a signer who has already claimed, against an expired and full
\* record, was refused as Expired.
C29_Witness ==
    /\ last.op = "Claim" /\ last.res = "Expired"
    /\ \E r \in RPAddrs : \E w \in Wallets :
          /\ LiveRecord(r) /\ ~Unexpired(r) /\ Full(r) /\ HasPaid(r, w)
          /\ rpdata[r].num_recipients = 2
          /\ process_claim(Ledger, now, [WellFormed(w, r) EXCEPT !.vault = OtherVault(r)]).res = "InvalidPDA"

\* What a step that ends a successful Claim has left alone.
ClaimFrame ==
    LET r == last'.rp
        old == rpdata[r]
        new == rpdata'[r]
        slot == old.num_claimed + 1
    IN
    /\ DOMAIN new = DOMAIN old
    /\ \A f \in DOMAIN old \ {"num_claimed", "remaining_amount", "claimers"} : new[f] = old[f]
    /\ DOMAIN new.claimers = DOMAIN old.claimers
    /\ \A i \in DOMAIN old.claimers \ {slot} : new.claimers[i] = old.claimers[i]
    /\ \A x \in RPAddrs \ {r} : rpdata'[x] = rpdata[x]
    /\ treasury' = treasury

\* C30: a successful Claim leaves creator, id, total_amount, num_recipients,
\* split_mode, bump, vault_bump, expires_at, every amounts[i] and every
\* claimers entry other than claimers[num_claimed] unchanged; the only
\* record fields it changes are num_claimed, remaining_amount and
\* claimers[num_claimed].
C30_ClaimFrame == [][(last'.op = "Claim" /\ last'.res = "Ok") => ClaimFrame]_vars

\* A second successful Claim has kept the first claimer's entry.
C30_Witness ==
    /\ last.op = "Claim" /\ last.res = "Ok"
    /\ rpdata[last.rp].num_claimed = 2
    /\ rpdata[last.rp].claimers[1] \in Wallets \ {last.who}
    /\ rpdata[last.rp].claimers[2] = last.who
    /\ rpdata[last.rp].total_amount = 2
    /\ rpdata[last.rp].remaining_amount = 0

\* C31: the checked subtraction of remaining_amount in Claim never fails:
\* in every reachable state the slot the next Claim would pay is at most
\* remaining_amount, and no Claim, submitted or possible, ends with
\* ArithmeticOverflow.
C31_SubtractionNeverFails ==
    /\ last.op \in {"Claim", "TamperedClaim"} => last.res # "ArithmeticOverflow"
    /\ \A r \in RPAddrs : LiveRecord(r) =>
          /\ ~Full(r) => get_amount_at(rpdata[r], rpdata[r].num_claimed) <= rpdata[r].remaining_amount
          /\ \A w \in Wallets :
                process_claim(Ledger, now, WellFormed(w, r)).res # "ArithmeticOverflow"

\* The last slot of a native packet was claimed and took remaining_amount
\* to exactly zero.
C31_Witness ==
    /\ last.op = "Claim" /\ last.res = "Ok"
    /\ rpdata[last.rp].token_type = TOKEN_TYPE_SOL
    /\ rpdata[last.rp].amounts = <<0, 1>>
    /\ rpdata[last.rp].num_claimed = 2
    /\ rpdata[last.rp].remaining_amount = 0

\* The ledger with the lamports of account x set to v.
WithLamports(L, x, v) == [L EXCEPT !.lamports = [@ EXCEPT ![x] = v]]

\* out is the refusal of an instruction on ledger L for overflow.
RefusedForOverflow(L, out) == out.res = "ArithmeticOverflow" /\ out.L = L

\* C32: no arithmetic of a handler wraps. A Create whose fee product or
\* whose Random-mode sum exceeds the integer width fails with
\* ArithmeticOverflow and changes nothing; a native Claim, Close or
\* WithdrawFees that would succeed fails with ArithmeticOverflow, changing
\* nothing, when the wallet it credits is so full that the credit does not
\* fit: for Close both at the vault credit and at the record credit.
C32_NoWrap ==
    /\ last.res = "ArithmeticOverflow" => last.op = "Create"
    /\ \A a \in OverflowingCreates :
          RefusedForOverflow(Ledger, dispatch_create(Ledger, now, a))
    /\ \A r \in RPAddrs : (LiveRecord(r) /\ rpdata[r].token_type = TOKEN_TYPE_SOL) =>
          /\ \A w \in Wallets :
                LET a == WellFormed(w, r)
                    full == WithLamports(Ledger, WalletAddr(w), U64_MAX)
                IN (/\ process_claim(Ledger, now, a).res = "Ok"
                    /\ get_amount_at(rpdata[r], rpdata[r].num_claimed) > 0)
                       => RefusedForOverflow(full, process_claim(full, now, a))
          /\ LET c == rpdata[r].creator
                 a == WellFormed(c, r)
                 full == WithLamports(Ledger, WalletAddr(c), U64_MAX)
                 nearly == WithLamports(Ledger, WalletAddr(c), U64_MAX - lamports[StoredVault(r)])
             IN process_close(Ledger, now, a).res = "Ok" =>
                    /\ RefusedForOverflow(full, process_close(full, now, a))
                    /\ RefusedForOverflow(nearly, process_close(nearly, now, a))
    /\ \A amount \in 0..MaxWithdraw :
          LET a == WellFormedWithdraw(AdminWallet, TOKEN_TYPE_SOL, amount)
              full == WithLamports(Ledger, ADMIN, U64_MAX)
              out == process_withdraw_fees(Ledger, a)
          IN (out.res = "Ok" /\ out.L.lamports[ADMIN] > lamports[ADMIN])
                 => RefusedForOverflow(full, process_withdraw_fees(full, a))

\* A Create was refused for overflow while a native record with a slot
\* still to pay, and native fees to withdraw, exist.
C32_Witness ==
    /\ last.op = "Create" /\ last.res = "ArithmeticOverflow"
    /\ \E r \in RPAddrs :
          /\ LiveRecord(r) /\ rpdata[r].token_type = TOKEN_TYPE_SOL
          /\ ~Full(r) /\ Unexpired(r)
          /\ get_amount_at(rpdata[r], rpdata[r].num_claimed) > 0
    /\ treasury[TreasuryOf(NATIVE_SOL_MINT)].sol_fees > 0

\* A tag that is neither Native nor Fungible.
BadTag == 2

VaultDebited(v) == lamports'[v] < lamports[v] \/ token'[v].amount < token[v].amount

\* This step is a successful Claim on the record of vault v that took
\* exactly the next slot's amount out of v and credited it to the signer.
ClaimDebit(v) ==
    /\ last'.op = "Claim" /\ last'.res = "Ok"
    /\ v = StoredVault(last'.rp)
    /\ LET r == last'.rp
           w == last'.who
           amount == get_amount_at(rpdata[r], rpdata[r].num_claimed)
       IN IF rpdata[r].token_type = TOKEN_TYPE_SOL
          THEN /\ lamports'[v] = lamports[v] - amount
               /\ lamports'[WalletAddr(w)] = lamports[WalletAddr(w)] + amount
          ELSE /\ lamports'[v] = lamports[v]
               /\ token'[v].amount = token[v].amount - amount
               /\ token'[TokenAddr(w)].amount = token[TokenAddr(w)].amount + amount

\* This step is a successful Close of the record of vault v signed by the
\* creator the record stores.
CloseDebit(v) ==
    /\ last'.op = "Close" /\ last'.res = "Ok"
    /\ v = StoredVault(last'.rp)
    /\ last'.who = rpdata[last'.rp].creator

\* C34: across any sequence of instructions from any parties, a packet
\* vault's balance goes down only in a successful Claim, by exactly
\* amounts[num_claimed] credited to the signing claimer, or in a successful
\* Close signed by the stored creator.
C34_OnlyClaimAndCloseDebit ==
    [][\A v \in VaultAddrs : VaultDebited(v) => (ClaimDebit(v) \/ CloseDebit(v))]_vars

\* The creator closed a token packet after one claim, and the vault is gone.
C34_Witness ==
    /\ last.op = "Close" /\ last.res = "Ok"
    /\ last.rp \in closed
    /\ paid[last.rp] = 1
    /\ \A v \in VaultAddrs : lamports[v] = 0
    /\ token[TokenAddr(1)].amount = InitTokens - 2

\* C35: InitTreasury answers TreasuryAlreadyInitialized only for an address
\* that holds a Treasury record, also after third parties have sent value to
\* a treasury address that was never initialised; so for an asset kind
\* without a Treasury record the InitTreasury a client builds, with the
\* derived addresses and their bumps, succeeds.
C35_ZeroBalanceIsSound ==
    /\ \A a \in InitRequests :
          process_init_treasury(Ledger, a).res = "TreasuryAlreadyInitialized"
              => validate_treasury(Ledger, a.treasury) = "Ok"
    /\ \A tt \in {TOKEN_TYPE_SPL, TOKEN_TYPE_SOL} : TreasuriesOf(KindMint(tt)) = {} =>
          \A w \in Wallets : process_init_treasury(Ledger, WellFormedInit(w, tt, 255, 255)).res = "Ok"

\* What the vault of the live record at r holds of the packet's asset in
\* ledger L: its tokens, or its lamports above the storage deposit of a
\* data-less account.
VaultHolds(L, r) ==
    LET v == <<"vault", r[2], r[3], L.rpdata[r].vault_bump>>
    IN IF L.rpdata[r].token_type = TOKEN_TYPE_SOL
       THEN L.lamports[v] - rent_exempt(0)
       ELSE L.token[v].amount

\* The sum of the slots that the first k successful Claims on a record with
\* data rp_data were paid.
PaidOut(rp_data, k) == SumTo(rp_data.amounts, k)

\* Every live record's vault holds total_amount less what the successful
\* Claims since its Create were paid.
VaultBalances(L, claims) ==
    \A r \in RPAddrs :
        (L.owner[r] = ID /\ L.rpdata[r].disc = REDPACKET_DISCRIMINATOR) =>
            VaultHolds(L, r) + PaidOut(L.rpdata[r], claims[r]) = L.rpdata[r].total_amount

\* What a step that ends a successful Close gave back to the creator: the
\* tokens its token account gained, or the lamports its wallet gained beyond
\* the storage deposits of the record and of the vault.
ReturnedAtClose ==
    LET r == last'.rp
        c == WalletAddr(last'.who)
        t == TokenAddr(last'.who)
    IN IF rpdata[r].token_type = TOKEN_TYPE_SOL
       THEN lamports'[c] - lamports[c] - lamports[r] - rent_exempt(0)
       ELSE token'[t].amount - token[t].amount

\* C36: without third-party deposits, after every step each live record's
\* vault holds total_amount less the slots paid to its claimers, and a
\* successful Close gives the creator back exactly total_amount less the sum
\* paid to the claimers and leaves the vault without tokens or lamports.
C36_Conservation ==
    [][/\ VaultBalances(Ledger', paid')
       /\ (last'.op = "Close" /\ last'.res = "Ok") =>
            LET r == last'.rp
                v == StoredVault(r)
            IN /\ PaidOut(rpdata[r], paid[r]) + ReturnedAtClose = rpdata[r].total_amount
               /\ paid[r] = rpdata[r].num_claimed
               /\ token'[v].amount = 0
               /\ lamports'[v] = 0]_vars

\* A packet of two with slots 1 and 1 was closed after one Claim: one unit
\* went to the claimer and one came back to the creator.
C36_Witness ==
    /\ last.op = "Close" /\ last.res = "Ok"
    /\ last.rp \in closed
    /\ paid[last.rp] = 1
    /\ now = MaxTime
    /\ \E w \in Wallets \ {last.who} : token[TokenAddr(w)].amount = InitTokens + 1
    /\ \A v \in VaultAddrs : lamports[v] = 0 /\ token[v].amount = 0

\* C37: in every reachable state the vault of every live record holds at
\* least remaining_amount of the packet's asset (a native vault that much
\* above its storage deposit), and a Claim that passes the expiry, fullness
\* and duplicate checks succeeds: it never fails for lack of vault funds.
C37_Solvency ==
    \A r \in RPAddrs : LiveRecord(r) =>
        /\ VaultHolds(Ledger, r) >= rpdata[r].remaining_amount
        /\ ~Full(r) => VaultHolds(Ledger, r) >= get_amount_at(rpdata[r], rpdata[r].num_claimed)
        /\ \A w \in Wallets :
              FirstClaimError(w, r) = "None" =>
                  process_claim(Ledger, now, WellFormed(w, r)).res = "Ok"

\* After the first Claim on a native packet of two, the vault still holds
\* the second slot above its storage deposit and another wallet can claim it.
C37_Witness ==
    /\ last.op = "Claim" /\ last.res = "Ok"
    /\ rpdata[last.rp].token_type = TOKEN_TYPE_SOL
    /\ rpdata[last.rp].num_claimed = 1
    /\ rpdata[last.rp].remaining_amount = 1
    /\ lamports[StoredVault(last.rp)] = rent_exempt(0) + 1
    /\ \E w \in Wallets : FirstClaimError(w, last.rp) = "None"

\* Creates of every asset kind, size, mode and vault bump for the nonce each
\* creator uses, valid in every argument and not yet expired.
RepeatedCreates ==
    {WellFormedCreate(c, tt, total, n, SPLIT_EVEN, now + 1, vb, <<>>) :
        c \in Creators, tt \in {TOKEN_TYPE_SPL, TOKEN_TYPE_SOL}, total \in 1..MaxTotal,
        n \in 1..MaxN, vb \in Bumps}
    \cup {WellFormedCreate(c, TOKEN_TYPE_SPL, MaxN, MaxN, SPLIT_RANDOM, now + 1, vb, [i \in 1..MaxN |-> 1]) :
        c \in Creators, vb \in Bumps}

\* The vault address holds a vault: an account of the program or of the
\* token program.
LiveVault(v) == lamports[v] > 0 /\ owner[v] \in {ID, TOKEN_PROGRAM_ID}

\* C38: a Create whose record address holds a live record, or whose vault
\* address holds a vault, fails with AccountAlreadyInUse and changes nothing:
\* the record's fields and claimers and the vault's balance stay as they are.
C38_CreateNeverOverwrites ==
    \A a \in RepeatedCreates : (LiveRecord(a.red_packet) \/ LiveVault(a.vault)) =>
        LET out == dispatch_create(Ledger, now, a)
        IN /\ out.res = "AccountAlreadyInUse"
           /\ out.L = Ledger
           /\ out.L.rpdata[a.red_packet] = rpdata[a.red_packet]
           /\ out.L.token[a.vault] = token[a.vault]
           /\ out.L.lamports[a.vault] = lamports[a.vault]

\* A Create at the address of a live record that one wallet has claimed from
\* was refused, and the record and its vault are as the Claim left them.
C38_Witness ==
    /\ last.op = "Create" /\ last.res = "AccountAlreadyInUse"
    /\ \E r \in RPAddrs :
          /\ LiveRecord(r) /\ rpdata[r].num_claimed = 1 /\ rpdata[r].num_recipients = 2
          /\ rpdata[r].remaining_amount = 1
          /\ VaultHolds(Ledger, r) = 1

\* C39: in every record a successful Create has written, in either split
\* mode, each of the num_recipients slot amounts is nonzero, and so every
\* successful Claim pays its claimer a positive amount.
C39_SlotsNonzero ==
    /\ \A r \in RPAddrs : LiveRecord(r) =>
          \A i \in 1..rpdata[r].num_recipients : rpdata[r].amounts[i] # 0
    /\ \A r \in RPAddrs : \A w \in Wallets : LiveRecord(r) =>
          LET out == process_claim(Ledger, now, WellFormed(w, r))
          IN out.res = "Ok" =>
                 IF rpdata[r].token_type = TOKEN_TYPE_SOL
                 THEN out.L.lamports[WalletAddr(w)] > lamports[WalletAddr(w)]
                 ELSE out.L.token[TokenAddr(w)].amount > token[TokenAddr(w)].amount

\* ------------------------- front end Create (blinks actions/create.rs 73-111)
LAMPORTS_PER_SOL == 1000000000
MaxMilliSol == 2

\* The amount parameter in thousandths of a SOL, as lamports.
sol_to_lamports(milli_sol) == milli_sol * (LAMPORTS_PER_SOL \div 1000)

\* The parameter checks of the front end's Create: at least 0.001 SOL and
\* 1 to MAX_RECIPIENTS recipients.
FrontEndAccepts(milli_sol, num_recipients) ==
    /\ ~(milli_sol < 1)
    /\ ~(num_recipients < 1 \/ num_recipients > MAX_RECIPIENTS)

\* The values floor(cut * total) at the edges and in the middle of the range
\* a cut in [0, 1) gives, and the non-decreasing sequences of them the sorted
\* cuts give.
EdgeFloors(total_amount) == {0, 1, total_amount \div 2, total_amount - 2, total_amount - 1}

EdgeCuts(total_amount, num_recipients) ==
    {f \in [1..(num_recipients - 1) -> EdgeFloors(total_amount)] :
        \A i, j \in 1..(num_recipients - 1) : i <= j => f[i] <= f[j]}

\* C40: for every amount and recipient count the front end accepts and every
\* sorted choice of cut points, each slot the random split generator returns,
\* the last included, is at least 1, and the Create built from the slots is
\* not refused by the on-chain check for a zero amount.
C40_GeneratedSlotsPositive ==
    \A milli_sol \in 0..MaxMilliSol : \A n \in 0..MaxSplitN :
        FrontEndAccepts(milli_sol, n) =>
            LET total_lamports == sol_to_lamports(milli_sol) IN
            \A floors \in EdgeCuts(total_lamports, n) :
                /\ \A i \in 1..n : generate_random_split(total_lamports, n, floors)[i] >= 1
                /\ \A c \in Creators :
                      dispatch_create(Ledger, now, FrontEndRandomCreate(c, total_lamports, n, floors)).res
                          # "InvalidAmount"

====
